---- MODULE Spec2Model ----
(***************************************************************************)
(* Model of src/src/analyze_rsa.py: the placement analysis pipeline of     *)
(* main() (load -> calculate_averages -> apply_blocking_criteria ->        *)
(* segment_platforms) and the pure functions it is built from.             *)
(*                                                                         *)
(* Numbers.  The source works on float columns read from decimal text.     *)
(* The model keeps every real-valued column as an integer number of        *)
(* hundredths (ctr 1800 is a CTR of 18.00 %, spend 6000 is 60.00 rub,      *)
(* depth 100 is 1.00 page) and the counts (impressions, clicks,            *)
(* conversions) as plain integers.  A float computed from them (a mean, a  *)
(* threshold) is held as the fraction it stands for together with the      *)
(* computation that produced it, and that computation is carried out in    *)
(* IEEE 754 binary64 wherever its rounding decides a comparison or a       *)
(* printed digit.  A mean over zero rows is 0/0, which stands for the NaN  *)
(* pandas returns; every comparison with it is false.  The leniency        *)
(* coefficient is kept in tenths (15 is 1.5, 10 is 1.0).                   *)
(*                                                                         *)
(* Names.  Column names and criterion codes are Cyrillic in the source:    *)
(*   Площадка -> platform, Показов -> impressions, Кликов -> clicks,       *)
(*   CTR_% -> ctr, Расход_руб -> spend, Ср_цена_клика_руб -> cpc,          *)
(*   Отказы_% -> bounce, Глубина_стр -> depth, Цена_цели_руб -> cpa,       *)
(*   Конверсии -> conversions; criteria "2.2а" -> "2.2a", "2.2б" ->        *)
(*   "2.2b", "2.2б + 2.1" -> "2.2b + 2.1", "2.1Б" -> "2.1B", "2.5Б" ->     *)
(*   "2.5B"; priorities КРИТИЧНЫЙ -> "Critical", ВЫСОКИЙ -> "High",        *)
(*   СРЕДНИЙ -> "Medium", ДОПОЛНИТЕЛЬНЫЙ -> "Supplementary".               *)
(***************************************************************************)
EXTENDS Integers, Sequences, FiniteSets, TLC

VARIABLES df, averages, blocking_df, divisions, segments, pc, error

vars == <<df, averages, blocking_df, divisions, segments, pc, error>>

(***************************************************************************)
(* Strings are sequences of Unicode code points, as a Python str is, so    *)
(* that str.lower() and the prefix, suffix, substring and count tests of   *)
(* identify_platform_type are computed and not assumed.  Str writes such a *)
(* sequence from one-character strings (ASCII letters, digits, ".-_").     *)
(***************************************************************************)
UpperChars == <<"A","B","C","D","E","F","G","H","I","J","K","L","M",
                "N","O","P","Q","R","S","T","U","V","W","X","Y","Z">>

LowerChars == <<"a","b","c","d","e","f","g","h","i","j","k","l","m",
                "n","o","p","q","r","s","t","u","v","w","x","y","z">>

Digits == <<"0","1","2","3","4","5","6","7","8","9">>

\* ord() of the ASCII letters, digits and of ".", "-", "_".
Ord ==
  [c \in {UpperChars[k] : k \in 1..26} |->
     64 + CHOOSE k \in 1..26 : UpperChars[k] = c]
  @@ [c \in {LowerChars[k] : k \in 1..26} |->
        96 + CHOOSE k \in 1..26 : LowerChars[k] = c]
  @@ [c \in {Digits[k] : k \in 1..10} |->
        47 + CHOOSE k \in 1..10 : Digits[k] = c]
  @@ ("-" :> 45) @@ ("." :> 46) @@ ("_" :> 95)

Str(chars) == [i \in 1..Len(chars) |-> Ord[chars[i]]]

\* str.lower() of the Unicode database of CPython 3.11 (Unicode 14.0).
\* LowerRanges lists <<first, last, step, delta>>: the code points first,
\* first + step, ..., last lower-case to themselves plus delta.  It leaves
\* out A-Z (delta 32), U+0130, whose lower case is the two code points
\* U+0069 U+0307, and U+03A3, whose lower case depends on its context.
LowerRanges ==
  << <<192, 214, 1, 32>>, <<216, 222, 1, 32>>, <<256, 302, 2, 1>>,
    <<306, 310, 2, 1>>, <<313, 327, 2, 1>>, <<330, 374, 2, 1>>,
    <<376, 376, 1, -121>>, <<377, 381, 2, 1>>, <<385, 385, 1, 210>>,
    <<386, 388, 2, 1>>, <<390, 390, 1, 206>>, <<391, 391, 1, 1>>,
    <<393, 394, 1, 205>>, <<395, 395, 1, 1>>, <<398, 398, 1, 79>>,
    <<399, 399, 1, 202>>, <<400, 400, 1, 203>>, <<401, 401, 1, 1>>,
    <<403, 403, 1, 205>>, <<404, 404, 1, 207>>, <<406, 406, 1, 211>>,
    <<407, 407, 1, 209>>, <<408, 408, 1, 1>>, <<412, 412, 1, 211>>,
    <<413, 413, 1, 213>>, <<415, 415, 1, 214>>, <<416, 420, 2, 1>>,
    <<422, 422, 1, 218>>, <<423, 423, 1, 1>>, <<425, 425, 1, 218>>,
    <<428, 428, 1, 1>>, <<430, 430, 1, 218>>, <<431, 431, 1, 1>>,
    <<433, 434, 1, 217>>, <<435, 437, 2, 1>>, <<439, 439, 1, 219>>,
    <<440, 440, 1, 1>>, <<444, 444, 1, 1>>, <<452, 452, 1, 2>>,
    <<453, 453, 1, 1>>, <<455, 455, 1, 2>>, <<456, 456, 1, 1>>,
    <<458, 458, 1, 2>>, <<459, 475, 2, 1>>, <<478, 494, 2, 1>>,
    <<497, 497, 1, 2>>, <<498, 500, 2, 1>>, <<502, 502, 1, -97>>,
    <<503, 503, 1, -56>>, <<504, 542, 2, 1>>, <<544, 544, 1, -130>>,
    <<546, 562, 2, 1>>, <<570, 570, 1, 10795>>, <<571, 571, 1, 1>>,
    <<573, 573, 1, -163>>, <<574, 574, 1, 10792>>, <<577, 577, 1, 1>>,
    <<579, 579, 1, -195>>, <<580, 580, 1, 69>>, <<581, 581, 1, 71>>,
    <<582, 590, 2, 1>>, <<880, 882, 2, 1>>, <<886, 886, 1, 1>>,
    <<895, 895, 1, 116>>, <<902, 902, 1, 38>>, <<904, 906, 1, 37>>,
    <<908, 908, 1, 64>>, <<910, 911, 1, 63>>, <<913, 929, 1, 32>>,
    <<932, 939, 1, 32>>, <<975, 975, 1, 8>>, <<984, 1006, 2, 1>>,
    <<1012, 1012, 1, -60>>, <<1015, 1015, 1, 1>>, <<1017, 1017, 1, -7>>,
    <<1018, 1018, 1, 1>>, <<1021, 1023, 1, -130>>, <<1024, 1039, 1, 80>>,
    <<1040, 1071, 1, 32>>, <<1120, 1152, 2, 1>>, <<1162, 1214, 2, 1>>,
    <<1216, 1216, 1, 15>>, <<1217, 1229, 2, 1>>, <<1232, 1326, 2, 1>>,
    <<1329, 1366, 1, 48>>, <<4256, 4293, 1, 7264>>, <<4295, 4295, 1, 7264>>,
    <<4301, 4301, 1, 7264>>, <<5024, 5103, 1, 38864>>, <<5104, 5109, 1, 8>>,
    <<7312, 7354, 1, -3008>>, <<7357, 7359, 1, -3008>>,
    <<7680, 7828, 2, 1>>, <<7838, 7838, 1, -7615>>, <<7840, 7934, 2, 1>>,
    <<7944, 7951, 1, -8>>, <<7960, 7965, 1, -8>>, <<7976, 7983, 1, -8>>,
    <<7992, 7999, 1, -8>>, <<8008, 8013, 1, -8>>, <<8025, 8031, 2, -8>>,
    <<8040, 8047, 1, -8>>, <<8072, 8079, 1, -8>>, <<8088, 8095, 1, -8>>,
    <<8104, 8111, 1, -8>>, <<8120, 8121, 1, -8>>, <<8122, 8123, 1, -74>>,
    <<8124, 8124, 1, -9>>, <<8136, 8139, 1, -86>>, <<8140, 8140, 1, -9>>,
    <<8152, 8153, 1, -8>>, <<8154, 8155, 1, -100>>, <<8168, 8169, 1, -8>>,
    <<8170, 8171, 1, -112>>, <<8172, 8172, 1, -7>>, <<8184, 8185, 1, -128>>,
    <<8186, 8187, 1, -126>>, <<8188, 8188, 1, -9>>,
    <<8486, 8486, 1, -7517>>, <<8490, 8490, 1, -8383>>,
    <<8491, 8491, 1, -8262>>, <<8498, 8498, 1, 28>>, <<8544, 8559, 1, 16>>,
    <<8579, 8579, 1, 1>>, <<9398, 9423, 1, 26>>, <<11264, 11311, 1, 48>>,
    <<11360, 11360, 1, 1>>, <<11362, 11362, 1, -10743>>,
    <<11363, 11363, 1, -3814>>, <<11364, 11364, 1, -10727>>,
    <<11367, 11371, 2, 1>>, <<11373, 11373, 1, -10780>>,
    <<11374, 11374, 1, -10749>>, <<11375, 11375, 1, -10783>>,
    <<11376, 11376, 1, -10782>>, <<11378, 11378, 1, 1>>,
    <<11381, 11381, 1, 1>>, <<11390, 11391, 1, -10815>>,
    <<11392, 11490, 2, 1>>, <<11499, 11501, 2, 1>>, <<11506, 11506, 1, 1>>,
    <<42560, 42604, 2, 1>>, <<42624, 42650, 2, 1>>, <<42786, 42798, 2, 1>>,
    <<42802, 42862, 2, 1>>, <<42873, 42875, 2, 1>>,
    <<42877, 42877, 1, -35332>>, <<42878, 42886, 2, 1>>,
    <<42891, 42891, 1, 1>>, <<42893, 42893, 1, -42280>>,
    <<42896, 42898, 2, 1>>, <<42902, 42920, 2, 1>>,
    <<42922, 42922, 1, -42308>>, <<42923, 42923, 1, -42319>>,
    <<42924, 42924, 1, -42315>>, <<42925, 42925, 1, -42305>>,
    <<42926, 42926, 1, -42308>>, <<42928, 42928, 1, -42258>>,
    <<42929, 42929, 1, -42282>>, <<42930, 42930, 1, -42261>>,
    <<42931, 42931, 1, 928>>, <<42932, 42946, 2, 1>>,
    <<42948, 42948, 1, -48>>, <<42949, 42949, 1, -42307>>,
    <<42950, 42950, 1, -35384>>, <<42951, 42953, 2, 1>>,
    <<42960, 42960, 1, 1>>, <<42966, 42968, 2, 1>>, <<42997, 42997, 1, 1>>,
    <<65313, 65338, 1, 32>>, <<66560, 66599, 1, 40>>,
    <<66736, 66771, 1, 40>>, <<66928, 66938, 1, 39>>,
    <<66940, 66954, 1, 39>>, <<66956, 66962, 1, 39>>,
    <<66964, 66965, 1, 39>>, <<68736, 68786, 1, 64>>,
    <<71840, 71871, 1, 32>>, <<93760, 93791, 1, 32>>,
    <<125184, 125217, 1, 34>>>>

\* The code points with the property Case_Ignorable, and those with the
\* property Cased that are not Case_Ignorable, as <<first, last>>.
CaseIgnorableRanges ==
  << <<39, 39>>, <<46, 46>>, <<58, 58>>, <<94, 94>>, <<96, 96>>,
    <<168, 168>>, <<173, 173>>, <<175, 175>>, <<180, 180>>, <<183, 184>>,
    <<688, 879>>, <<884, 885>>, <<890, 890>>, <<900, 901>>, <<903, 903>>,
    <<1155, 1161>>, <<1369, 1369>>, <<1375, 1375>>, <<1425, 1469>>,
    <<1471, 1471>>, <<1473, 1474>>, <<1476, 1477>>, <<1479, 1479>>,
    <<1524, 1524>>, <<1536, 1541>>, <<1552, 1562>>, <<1564, 1564>>,
    <<1600, 1600>>, <<1611, 1631>>, <<1648, 1648>>, <<1750, 1757>>,
    <<1759, 1768>>, <<1770, 1773>>, <<1807, 1807>>, <<1809, 1809>>,
    <<1840, 1866>>, <<1958, 1968>>, <<2027, 2037>>, <<2042, 2042>>,
    <<2045, 2045>>, <<2070, 2093>>, <<2137, 2139>>, <<2184, 2184>>,
    <<2192, 2193>>, <<2200, 2207>>, <<2249, 2306>>, <<2362, 2362>>,
    <<2364, 2364>>, <<2369, 2376>>, <<2381, 2381>>, <<2385, 2391>>,
    <<2402, 2403>>, <<2417, 2417>>, <<2433, 2433>>, <<2492, 2492>>,
    <<2497, 2500>>, <<2509, 2509>>, <<2530, 2531>>, <<2558, 2558>>,
    <<2561, 2562>>, <<2620, 2620>>, <<2625, 2626>>, <<2631, 2632>>,
    <<2635, 2637>>, <<2641, 2641>>, <<2672, 2673>>, <<2677, 2677>>,
    <<2689, 2690>>, <<2748, 2748>>, <<2753, 2757>>, <<2759, 2760>>,
    <<2765, 2765>>, <<2786, 2787>>, <<2810, 2815>>, <<2817, 2817>>,
    <<2876, 2876>>, <<2879, 2879>>, <<2881, 2884>>, <<2893, 2893>>,
    <<2901, 2902>>, <<2914, 2915>>, <<2946, 2946>>, <<3008, 3008>>,
    <<3021, 3021>>, <<3072, 3072>>, <<3076, 3076>>, <<3132, 3132>>,
    <<3134, 3136>>, <<3142, 3144>>, <<3146, 3149>>, <<3157, 3158>>,
    <<3170, 3171>>, <<3201, 3201>>, <<3260, 3260>>, <<3263, 3263>>,
    <<3270, 3270>>, <<3276, 3277>>, <<3298, 3299>>, <<3328, 3329>>,
    <<3387, 3388>>, <<3393, 3396>>, <<3405, 3405>>, <<3426, 3427>>,
    <<3457, 3457>>, <<3530, 3530>>, <<3538, 3540>>, <<3542, 3542>>,
    <<3633, 3633>>, <<3636, 3642>>, <<3654, 3662>>, <<3761, 3761>>,
    <<3764, 3772>>, <<3782, 3782>>, <<3784, 3789>>, <<3864, 3865>>,
    <<3893, 3893>>, <<3895, 3895>>, <<3897, 3897>>, <<3953, 3966>>,
    <<3968, 3972>>, <<3974, 3975>>, <<3981, 3991>>, <<3993, 4028>>,
    <<4038, 4038>>, <<4141, 4144>>, <<4146, 4151>>, <<4153, 4154>>,
    <<4157, 4158>>, <<4184, 4185>>, <<4190, 4192>>, <<4209, 4212>>,
    <<4226, 4226>>, <<4229, 4230>>, <<4237, 4237>>, <<4253, 4253>>,
    <<4348, 4348>>, <<4957, 4959>>, <<5906, 5908>>, <<5938, 5939>>,
    <<5970, 5971>>, <<6002, 6003>>, <<6068, 6069>>, <<6071, 6077>>,
    <<6086, 6086>>, <<6089, 6099>>, <<6103, 6103>>, <<6109, 6109>>,
    <<6155, 6159>>, <<6211, 6211>>, <<6277, 6278>>, <<6313, 6313>>,
    <<6432, 6434>>, <<6439, 6440>>, <<6450, 6450>>, <<6457, 6459>>,
    <<6679, 6680>>, <<6683, 6683>>, <<6742, 6742>>, <<6744, 6750>>,
    <<6752, 6752>>, <<6754, 6754>>, <<6757, 6764>>, <<6771, 6780>>,
    <<6783, 6783>>, <<6823, 6823>>, <<6832, 6862>>, <<6912, 6915>>,
    <<6964, 6964>>, <<6966, 6970>>, <<6972, 6972>>, <<6978, 6978>>,
    <<7019, 7027>>, <<7040, 7041>>, <<7074, 7077>>, <<7080, 7081>>,
    <<7083, 7085>>, <<7142, 7142>>, <<7144, 7145>>, <<7149, 7149>>,
    <<7151, 7153>>, <<7212, 7219>>, <<7222, 7223>>, <<7288, 7293>>,
    <<7376, 7378>>, <<7380, 7392>>, <<7394, 7400>>, <<7405, 7405>>,
    <<7412, 7412>>, <<7416, 7417>>, <<7468, 7530>>, <<7544, 7544>>,
    <<7579, 7679>>, <<8125, 8125>>, <<8127, 8129>>, <<8141, 8143>>,
    <<8157, 8159>>, <<8173, 8175>>, <<8189, 8190>>, <<8203, 8207>>,
    <<8216, 8217>>, <<8228, 8228>>, <<8231, 8231>>, <<8234, 8238>>,
    <<8288, 8292>>, <<8294, 8303>>, <<8305, 8305>>, <<8319, 8319>>,
    <<8336, 8348>>, <<8400, 8432>>, <<11388, 11389>>, <<11503, 11505>>,
    <<11631, 11631>>, <<11647, 11647>>, <<11744, 11775>>, <<11823, 11823>>,
    <<12293, 12293>>, <<12330, 12333>>, <<12337, 12341>>, <<12347, 12347>>,
    <<12441, 12446>>, <<12540, 12542>>, <<40981, 40981>>, <<42232, 42237>>,
    <<42508, 42508>>, <<42607, 42610>>, <<42612, 42621>>, <<42623, 42623>>,
    <<42652, 42655>>, <<42736, 42737>>, <<42752, 42785>>, <<42864, 42864>>,
    <<42888, 42890>>, <<42994, 42996>>, <<43000, 43001>>, <<43010, 43010>>,
    <<43014, 43014>>, <<43019, 43019>>, <<43045, 43046>>, <<43052, 43052>>,
    <<43204, 43205>>, <<43232, 43249>>, <<43263, 43263>>, <<43302, 43309>>,
    <<43335, 43345>>, <<43392, 43394>>, <<43443, 43443>>, <<43446, 43449>>,
    <<43452, 43453>>, <<43471, 43471>>, <<43493, 43494>>, <<43561, 43566>>,
    <<43569, 43570>>, <<43573, 43574>>, <<43587, 43587>>, <<43596, 43596>>,
    <<43632, 43632>>, <<43644, 43644>>, <<43696, 43696>>, <<43698, 43700>>,
    <<43703, 43704>>, <<43710, 43711>>, <<43713, 43713>>, <<43741, 43741>>,
    <<43756, 43757>>, <<43763, 43764>>, <<43766, 43766>>, <<43867, 43871>>,
    <<43881, 43883>>, <<44005, 44005>>, <<44008, 44008>>, <<44013, 44013>>,
    <<64286, 64286>>, <<64434, 64450>>, <<65024, 65039>>, <<65043, 65043>>,
    <<65056, 65071>>, <<65106, 65106>>, <<65109, 65109>>, <<65279, 65279>>,
    <<65287, 65287>>, <<65294, 65294>>, <<65306, 65306>>, <<65342, 65342>>,
    <<65344, 65344>>, <<65392, 65392>>, <<65438, 65439>>, <<65507, 65507>>,
    <<65529, 65531>>, <<66045, 66045>>, <<66272, 66272>>, <<66422, 66426>>,
    <<67456, 67461>>, <<67463, 67504>>, <<67506, 67514>>, <<68097, 68099>>,
    <<68101, 68102>>, <<68108, 68111>>, <<68152, 68154>>, <<68159, 68159>>,
    <<68325, 68326>>, <<68900, 68903>>, <<69291, 69292>>, <<69446, 69456>>,
    <<69506, 69509>>, <<69633, 69633>>, <<69688, 69702>>, <<69744, 69744>>,
    <<69747, 69748>>, <<69759, 69761>>, <<69811, 69814>>, <<69817, 69818>>,
    <<69821, 69821>>, <<69826, 69826>>, <<69837, 69837>>, <<69888, 69890>>,
    <<69927, 69931>>, <<69933, 69940>>, <<70003, 70003>>, <<70016, 70017>>,
    <<70070, 70078>>, <<70089, 70092>>, <<70095, 70095>>, <<70191, 70193>>,
    <<70196, 70196>>, <<70198, 70199>>, <<70206, 70206>>, <<70367, 70367>>,
    <<70371, 70378>>, <<70400, 70401>>, <<70459, 70460>>, <<70464, 70464>>,
    <<70502, 70508>>, <<70512, 70516>>, <<70712, 70719>>, <<70722, 70724>>,
    <<70726, 70726>>, <<70750, 70750>>, <<70835, 70840>>, <<70842, 70842>>,
    <<70847, 70848>>, <<70850, 70851>>, <<71090, 71093>>, <<71100, 71101>>,
    <<71103, 71104>>, <<71132, 71133>>, <<71219, 71226>>, <<71229, 71229>>,
    <<71231, 71232>>, <<71339, 71339>>, <<71341, 71341>>, <<71344, 71349>>,
    <<71351, 71351>>, <<71453, 71455>>, <<71458, 71461>>, <<71463, 71467>>,
    <<71727, 71735>>, <<71737, 71738>>, <<71995, 71996>>, <<71998, 71998>>,
    <<72003, 72003>>, <<72148, 72151>>, <<72154, 72155>>, <<72160, 72160>>,
    <<72193, 72202>>, <<72243, 72248>>, <<72251, 72254>>, <<72263, 72263>>,
    <<72273, 72278>>, <<72281, 72283>>, <<72330, 72342>>, <<72344, 72345>>,
    <<72752, 72758>>, <<72760, 72765>>, <<72767, 72767>>, <<72850, 72871>>,
    <<72874, 72880>>, <<72882, 72883>>, <<72885, 72886>>, <<73009, 73014>>,
    <<73018, 73018>>, <<73020, 73021>>, <<73023, 73029>>, <<73031, 73031>>,
    <<73104, 73105>>, <<73109, 73109>>, <<73111, 73111>>, <<73459, 73460>>,
    <<78896, 78904>>, <<92912, 92916>>, <<92976, 92982>>, <<92992, 92995>>,
    <<94031, 94031>>, <<94095, 94111>>, <<94176, 94177>>, <<94179, 94180>>,
    <<110576, 110579>>, <<110581, 110587>>, <<110589, 110590>>,
    <<113821, 113822>>, <<113824, 113827>>, <<118528, 118573>>,
    <<118576, 118598>>, <<119143, 119145>>, <<119155, 119170>>,
    <<119173, 119179>>, <<119210, 119213>>, <<119362, 119364>>,
    <<121344, 121398>>, <<121403, 121452>>, <<121461, 121461>>,
    <<121476, 121476>>, <<121499, 121503>>, <<121505, 121519>>,
    <<122880, 122886>>, <<122888, 122904>>, <<122907, 122913>>,
    <<122915, 122916>>, <<122918, 122922>>, <<123184, 123197>>,
    <<123566, 123566>>, <<123628, 123631>>, <<125136, 125142>>,
    <<125252, 125259>>, <<127995, 127999>>, <<917505, 917505>>,
    <<917536, 917631>>, <<917760, 917999>>>>

CasedRanges ==
  << <<65, 90>>, <<97, 122>>, <<170, 170>>, <<181, 181>>, <<186, 186>>,
    <<192, 214>>, <<216, 246>>, <<248, 442>>, <<444, 447>>, <<452, 659>>,
    <<661, 687>>, <<880, 883>>, <<886, 887>>, <<891, 893>>, <<895, 895>>,
    <<902, 902>>, <<904, 906>>, <<908, 908>>, <<910, 929>>, <<931, 1013>>,
    <<1015, 1153>>, <<1162, 1327>>, <<1329, 1366>>, <<1376, 1416>>,
    <<4256, 4293>>, <<4295, 4295>>, <<4301, 4301>>, <<4304, 4346>>,
    <<4349, 4351>>, <<5024, 5109>>, <<5112, 5117>>, <<7296, 7304>>,
    <<7312, 7354>>, <<7357, 7359>>, <<7424, 7467>>, <<7531, 7543>>,
    <<7545, 7578>>, <<7680, 7957>>, <<7960, 7965>>, <<7968, 8005>>,
    <<8008, 8013>>, <<8016, 8023>>, <<8025, 8025>>, <<8027, 8027>>,
    <<8029, 8029>>, <<8031, 8061>>, <<8064, 8116>>, <<8118, 8124>>,
    <<8126, 8126>>, <<8130, 8132>>, <<8134, 8140>>, <<8144, 8147>>,
    <<8150, 8155>>, <<8160, 8172>>, <<8178, 8180>>, <<8182, 8188>>,
    <<8450, 8450>>, <<8455, 8455>>, <<8458, 8467>>, <<8469, 8469>>,
    <<8473, 8477>>, <<8484, 8484>>, <<8486, 8486>>, <<8488, 8488>>,
    <<8490, 8493>>, <<8495, 8500>>, <<8505, 8505>>, <<8508, 8511>>,
    <<8517, 8521>>, <<8526, 8526>>, <<8544, 8575>>, <<8579, 8580>>,
    <<9398, 9449>>, <<11264, 11387>>, <<11390, 11492>>, <<11499, 11502>>,
    <<11506, 11507>>, <<11520, 11557>>, <<11559, 11559>>, <<11565, 11565>>,
    <<42560, 42605>>, <<42624, 42651>>, <<42786, 42863>>, <<42865, 42887>>,
    <<42891, 42894>>, <<42896, 42954>>, <<42960, 42961>>, <<42963, 42963>>,
    <<42965, 42969>>, <<42997, 42998>>, <<43002, 43002>>, <<43824, 43866>>,
    <<43872, 43880>>, <<43888, 43967>>, <<64256, 64262>>, <<64275, 64279>>,
    <<65313, 65338>>, <<65345, 65370>>, <<66560, 66639>>, <<66736, 66771>>,
    <<66776, 66811>>, <<66928, 66938>>, <<66940, 66954>>, <<66956, 66962>>,
    <<66964, 66965>>, <<66967, 66977>>, <<66979, 66993>>, <<66995, 67001>>,
    <<67003, 67004>>, <<68736, 68786>>, <<68800, 68850>>, <<71840, 71903>>,
    <<93760, 93823>>, <<119808, 119892>>, <<119894, 119964>>,
    <<119966, 119967>>, <<119970, 119970>>, <<119973, 119974>>,
    <<119977, 119980>>, <<119982, 119993>>, <<119995, 119995>>,
    <<119997, 120003>>, <<120005, 120069>>, <<120071, 120074>>,
    <<120077, 120084>>, <<120086, 120092>>, <<120094, 120121>>,
    <<120123, 120126>>, <<120128, 120132>>, <<120134, 120134>>,
    <<120138, 120144>>, <<120146, 120485>>, <<120488, 120512>>,
    <<120514, 120538>>, <<120540, 120570>>, <<120572, 120596>>,
    <<120598, 120628>>, <<120630, 120654>>, <<120656, 120686>>,
    <<120688, 120712>>, <<120714, 120744>>, <<120746, 120770>>,
    <<120772, 120779>>, <<122624, 122633>>, <<122635, 122654>>,
    <<125184, 125251>>, <<127280, 127305>>, <<127312, 127337>>,
    <<127344, 127369>>>>

InRanges(c, ranges) ==
  \E k \in 1..Len(ranges) : ranges[k][1] <= c /\ c <= ranges[k][2]

\* handle_capital_sigma: U+03A3 becomes the final sigma U+03C2 when the
\* nearest character before it that is not case-ignorable is cased and the
\* nearest such character after it, if any, is not.
\* solid holds the positions of s whose character is not case-ignorable,
\* cased those whose character is cased.
FinalSigmaAmong(i, solid, cased) ==
  /\ \E j \in solid : j < i /\ j \in cased /\ \A k \in solid : k < i => k <= j
  /\ ~\E j \in solid : j > i /\ j \in cased /\ \A k \in solid : k > i => j <= k

FinalSigma(s, i) ==
  FinalSigmaAmong(i, {j \in 1..Len(s) : ~InRanges(s[j], CaseIgnorableRanges)},
                  {j \in 1..Len(s) : InRanges(s[j], CasedRanges)})

\* What lower-casing adds to the code point c: the delta of the range of
\* the table that holds c, 0 when none does.
LowerDelta(c, ranges) ==
  LET hit == {k \in 1..Len(ranges) :
                /\ ranges[k][1] <= c /\ c <= ranges[k][2]
                /\ (c - ranges[k][1]) % ranges[k][3] = 0}
  IN IF hit = {} THEN 0 ELSE ranges[CHOOSE k \in hit : TRUE][4]

\* The lower case of the character at position i of s: one code point, or
\* two for U+0130.
LowerAt(s, i) ==
  LET c == s[i] IN
  IF c < 128 THEN <<IF 65 <= c /\ c <= 90 THEN c + 32 ELSE c>>
  ELSE IF c = 304 THEN <<105, 775>>
  ELSE IF c = 931 THEN <<IF FinalSigma(s, i) THEN 962 ELSE 963>>
  ELSE <<c + LowerDelta(c, LowerRanges)>>

RECURSIVE LowerFrom(_, _)
LowerFrom(s, i) ==
  IF i > Len(s) THEN <<>> ELSE LowerAt(s, i) \o LowerFrom(s, i + 1)

\* str.lower(); an all-ASCII string keeps its length.
lower(s) ==
  IF \A i \in 1..Len(s) : s[i] < 128
  THEN [i \in 1..Len(s) |-> IF 65 <= s[i] /\ s[i] <= 90 THEN s[i] + 32 ELSE s[i]]
  ELSE LowerFrom(s, 1)

startswith(s, p) == Len(p) <= Len(s) /\ SubSeq(s, 1, Len(p)) = p

endswith(s, p) == Len(p) <= Len(s) /\ SubSeq(s, Len(s) - Len(p) + 1, Len(s)) = p

contains(s, p) ==
  \E i \in 1..(Len(s) - Len(p) + 1) : SubSeq(s, i, i + Len(p) - 1) = p

count(s, c) == Cardinality({i \in 1..Len(s) : s[i] = c})

mobile_prefixes ==
  << Str(<<"c","o","m",".">>), Str(<<"r","u",".">>), Str(<<"b","y",".">>),
     Str(<<"f","m",".">>), Str(<<"o","r","g",".">>), Str(<<"c","z",".">>),
     Str(<<"n","e","t",".">>), Str(<<"b","i","z",".">>),
     Str(<<"g","a","m","e",".">>), Str(<<"a","f","i","s","h","a",".">>),
     Str(<<"a","s","i","a","n",".">>), Str(<<"a","i","r",".">>),
     Str(<<"a","n","d",".">>), Str(<<"i","o",".">>), Str(<<"c","o","n",".">>),
     Str(<<"t","a","p",".">>) >>

s_yandex == Str(<<"y","a","n","d","e","x">>)

s_dzen == Str(<<"d","z","e","n">>)

s_dzen_ru == Str(<<"d","z","e","n",".","r","u">>)

s_dsp == Str(<<"d","s","p","-">>)

s_dot_com == Str(<<".","c","o","m">>)

s_dot == Ord["."]

\* Fault variant of identify_platform_type: the dot-count guard of the mobile
\* rule joined with 'and' in place of 'or'.
type_of_lowercase_and(name) ==
  IF contains(name, s_yandex) \/ name = s_dzen_ru THEN "Yandex"
  ELSE IF startswith(name, s_dsp) THEN "DSP"
  ELSE IF \E k \in 1..Len(mobile_prefixes) :
            /\ startswith(name, mobile_prefixes[k])
            /\ count(name, s_dot) >= 2
            /\ ~(contains(name, s_yandex) \/ contains(name, s_dzen))
       THEN "MobileApp"
  ELSE IF endswith(name, s_dot_com) THEN "ComSite"
  ELSE "Site"

\* The rules of identify_platform_type on the lower-cased identifier.
\* Platform types: Яндекс-площадка, DSP-площадка, Мобильное приложение,
\* Сайт (.com), Сайт.
type_of_lowercase(name) ==
  IF contains(name, s_yandex) \/ name = s_dzen_ru THEN "Yandex"
  ELSE IF startswith(name, s_dsp) THEN "DSP"
  ELSE IF \E k \in 1..Len(mobile_prefixes) :
            /\ startswith(name, mobile_prefixes[k])
            /\ \/ count(name, s_dot) >= 2
               \/ ~(contains(name, s_yandex) \/ contains(name, s_dzen))
       THEN "MobileApp"
  ELSE IF endswith(name, s_dot_com) THEN "ComSite"
  ELSE "Site"

\* platform_name = str(platform_name).lower(), then the rules on it
identify_platform_type(platform_name) == type_of_lowercase(lower(platform_name))

\* yandex_coef = 1.5 if is_yandex else 1.0, in tenths.
\* Fault variant of yandex_coef: the coefficient given to the wrong branch.
yandex_coef_swapped(platform_type) == IF platform_type = "Yandex" THEN 10 ELSE 15

yandex_coef(platform_type) == IF platform_type = "Yandex" THEN 15 ELSE 10

(***************************************************************************)
(* IEEE 754 binary64 arithmetic on non-negative finite values, rounding to *)
(* nearest, ties to even.  TLC's integers have 32 bits, so a significand   *)
(* is held as a natural number in limbs of 14 bits, least significant      *)
(* first and without leading zero limbs (<<>> is 0).                       *)
(***************************************************************************)
Limb == 16384

LimbBits == 14

\* InOrder(<<a, b, c>>) is c.  TLC evaluates the elements of a tuple in
\* order, so a chain of operations written as the tuple of its intermediate
\* results is evaluated one operation after the other and not one inside
\* the other.
InOrder(steps) == steps[Len(steps)]

Highest(S) == CHOOSE i \in S : \A j \in S : j <= i

\* limb i of a; 0 outside a
LimbAt(a, i) == IF 1 <= i /\ i <= Len(a) THEN a[i] ELSE 0

BigStrip(a) == SubSeq(a, 1, Highest({0} \cup {i \in 1..Len(a) : a[i] # 0}))

\* 0 <= n < 2^31
BigOfInt(n) ==
  BigStrip(<<n % Limb, (n \div Limb) % Limb, n \div (Limb * Limb)>>)

\* a < 2^31
BigToInt(a) ==
  LimbAt(a, 1) + Limb * LimbAt(a, 2) + Limb * Limb * LimbAt(a, 3)

\* The number whose limb i is s[i], for s[i] < 2 * Limb.  A limb position
\* passes a carry up when s[i] is Limb or more, or Limb - 1 with a carry
\* coming in.
Carried(s) ==
  BigStrip([i \in 1..Len(s) |->
              (s[i] + (IF \E j \in 1..(i - 1) :
                            /\ s[j] >= Limb
                            /\ \A k \in (j + 1)..(i - 1) : s[k] = Limb - 1
                       THEN 1 ELSE 0)) % Limb])

\* a + b
BigAdd(a, b) ==
  IF a = <<>> THEN b
  ELSE IF b = <<>> THEN a
  ELSE Carried([i \in 1..((IF Len(a) > Len(b) THEN Len(a) ELSE Len(b)) + 1) |->
                  LimbAt(a, i) + LimbAt(b, i)])

\* The number whose limb i is d[i], for -Limb < d[i] < Limb and a result
\* that is not negative, with borrows in place of carries.
Borrowed(d) ==
  BigStrip([i \in 1..Len(d) |->
              (d[i] + Limb - (IF \E j \in 1..(i - 1) :
                                   /\ d[j] < 0
                                   /\ \A k \in (j + 1)..(i - 1) : d[k] = 0
                              THEN 1 ELSE 0)) % Limb])

\* a - b for a >= b
BigSub(a, b) == Borrowed([i \in 1..Len(a) |-> a[i] - LimbAt(b, i)])

\* -1, 0, 1 as a < b, a = b, a > b
BigCmp(a, b) ==
  IF Len(a) # Len(b) THEN (IF Len(a) < Len(b) THEN -1 ELSE 1)
  ELSE IF a = b THEN 0
  ELSE IF a[Highest({i \in 1..Len(a) : a[i] # b[i]})]
            < b[Highest({i \in 1..Len(a) : a[i] # b[i]})] THEN -1
  ELSE 1

\* a * k for 0 <= k <= Limb
BigMulSmall(a, k) ==
  Carried([i \in 1..(Len(a) + 1) |->
             ((LimbAt(a, i) * k) % Limb) + (LimbAt(a, i - 1) * k) \div Limb])

\* The number whose limb k is column[k], for column[k] < 2^30.
Columns(column) ==
  BigAdd(Carried([k \in 1..Len(column) |->
                    (column[k] % Limb)
                      + ((LimbAt(column, k - 1) \div Limb) % Limb)]),
         BigStrip([k \in 1..Len(column) |->
                     LimbAt(column, k - 2) \div (Limb * Limb)]))

\* a * b for a of at most 4 limbs
BigMul(a, b) ==
  Columns([k \in 1..(Len(a) + Len(b)) |->
             LimbAt(a, 1) * LimbAt(b, k) + LimbAt(a, 2) * LimbAt(b, k - 1)
               + LimbAt(a, 3) * LimbAt(b, k - 2)
               + LimbAt(a, 4) * LimbAt(b, k - 3)])

\* a * 2^s and floor(a / 2^s)
BigShl(a, s) ==
  BigStrip([i \in 1..(Len(a) + s \div LimbBits + 1) |->
              (LimbAt(a, i - s \div LimbBits)
                 % 2^(LimbBits - (s % LimbBits))) * 2^(s % LimbBits)
                + LimbAt(a, i - s \div LimbBits - 1)
                    \div 2^(LimbBits - (s % LimbBits))])

BigShr(a, s) ==
  BigStrip([i \in 1..(Len(a) - s \div LimbBits) |->
              a[i + s \div LimbBits] \div 2^(s % LimbBits)
                + (LimbAt(a, i + s \div LimbBits + 1) % 2^(s % LimbBits))
                    * 2^(LimbBits - (s % LimbBits))])

\* bit i of a (bit 0 the lowest), and whether any bit below bit i is set
BigBit(a, i) ==
  (LimbAt(a, i \div LimbBits + 1) \div 2^(i % LimbBits)) % 2

BigAnyBelow(a, i) ==
  \/ \E j \in 1..Len(a) : j <= i \div LimbBits /\ a[j] # 0
  \/ LimbAt(a, i \div LimbBits + 1) % 2^(i % LimbBits) # 0

\* the number of bits of a
BigBits(a) ==
  IF a = <<>> THEN 0
  ELSE LimbBits * (Len(a) - 1)
         + Cardinality({t \in 0..(LimbBits - 1) : 2^t <= a[Len(a)]})

\* Limb^0 .. Limb^6 modulo k
LimbPowMod(k) ==
  LET p1 == Limb % k
      p2 == (p1 * p1) % k
      p4 == (p2 * p2) % k
  IN <<1 % k, p1, p2, (p2 * p1) % k, p4, (p4 * p1) % k, (p4 * p2) % k>>

\* Quotient and remainder of a by k, given the remainder above[i] by k of
\* the limbs of a above limb i: limb i of the quotient is that of above[i]
\* brought down before limb i.
DivSmallWith(a, k, above) ==
  [q |-> BigStrip([i \in 1..Len(a) |-> (above[i] * Limb + a[i]) \div k]),
   r |-> BigStrip(<<above[0]>>)]

\* the remainder by k of the limbs of a above limb i, a of at most 7 limbs
RemAbove(a, k, pow, i) ==
  ((LimbAt(a, i + 1) % k) * pow[1] + (LimbAt(a, i + 2) % k) * pow[2]
     + (LimbAt(a, i + 3) % k) * pow[3] + (LimbAt(a, i + 4) % k) * pow[4]
     + (LimbAt(a, i + 5) % k) * pow[5] + (LimbAt(a, i + 6) % k) * pow[6]
     + (LimbAt(a, i + 7) % k) * pow[7]) % k

\* quotient q and remainder r of a by k, for 0 < k <= Limb
BigDivSmall(a, k) ==
  DivSmallWith(a, k, [i \in 0..Len(a) |-> RemAbove(a, k, LimbPowMod(k), i)])

\* The digits a limb of quotient can be when r is divided by b, both with
\* a top limb of Limb / 2 or more in b: at most 2 below the quotient of the
\* two top limbs of r by the top limb of b.
DigitGuesses(r, b) ==
  LET top == LimbAt(r, Len(b) + 1) * Limb + LimbAt(r, Len(b))
      guess == IF top \div b[Len(b)] >= Limb THEN Limb - 1
               ELSE top \div b[Len(b)]
  IN {guess, guess - 1, guess - 2}

\* the quotient q extended by a limb, and what is left of r
WithDigit(q, r, b, digit) ==
  [q |-> BigStrip(<<digit>> \o q), r |-> BigSub(r, BigMulSmall(b, digit))]

\* one step of the long division by b, after the quotient and remainder
\* `high` of the limbs above
DivStep(high, r, b) ==
  WithDigit(high.q, r, b,
            Highest({d \in DigitGuesses(r, b) :
                       d >= 0 /\ BigCmp(BigMulSmall(b, d), r) <= 0}))

\* `high` is the quotient and remainder by b of the limbs above; the next
\* limb brought down is 0.
DivShifted(high, b) ==
  IF high.r = <<>> THEN DivStep(high, <<>>, b)
  ELSE DivStep(high, <<0>> \o high.r, b)

\* Quotient and remainder of a * Limb^n by b, for a and b of 4 limbs whose
\* top limb is Limb / 2 or more: long division, a limb of quotient at a
\* time.
RECURSIVE BigDivModFrom(_, _, _)
BigDivModFrom(a, b, n) ==
  IF n = 0
  THEN (IF BigCmp(a, b) < 0 THEN [q |-> <<>>, r |-> a]
        ELSE [q |-> <<1>>, r |-> BigSub(a, b)])
  ELSE DivShifted(BigDivModFrom(a, b, n - 1), b)

\* A double is m * 2^e with m = 0 or 2^52 <= m < 2^53.
FZero == [m |-> <<>>, e |-> 0]

\* m * 2^e for 2^52 <= m <= 2^53
Renormalize(m, e) ==
  IF BigBits(m) = 54 THEN [m |-> BigShr(m, 1), e |-> e + 1]
  ELSE [m |-> m, e |-> e]

\* whether a number whose floor is a (and that is not a when inexact) goes
\* up when rounded at bit s: to nearest, ties to even
RoundsUp(a, inexact, s) ==
  /\ BigBit(a, s - 1) = 1
  /\ inexact \/ BigAnyBelow(a, s - 1) \/ BigBit(a, s) = 1

RoundAt(a, inexact, e, s) ==
  IF s <= 0 THEN [m |-> BigShl(a, 0 - s), e |-> e + s]
  ELSE Renormalize(BigAdd(BigShr(a, s),
                          IF RoundsUp(a, inexact, s) THEN <<1>> ELSE <<>>),
                   e + s)

\* The double nearest to v * 2^e, where a is the floor of v and inexact
\* tells that v is not a; an inexact v has 54 bits or more.
FRoundInexact(a, inexact, e) ==
  IF a = <<>> THEN FZero ELSE RoundAt(a, inexact, e, BigBits(a) - 53)

\* The double nearest to a * 2^e.
FRound(a, e) == FRoundInexact(a, FALSE, e)

\* x * y
FMul(x, y) ==
  IF x.m = <<>> \/ y.m = <<>> THEN FZero
  ELSE FRound(BigMul(x.m, y.m), x.e + y.e)

\* x + y
FAdd(x, y) ==
  IF x.m = <<>> THEN y
  ELSE IF y.m = <<>> THEN x
  ELSE FRound(BigAdd(BigShl(x.m, x.e - (IF x.e < y.e THEN x.e ELSE y.e)),
                     BigShl(y.m, y.e - (IF x.e < y.e THEN x.e ELSE y.e))),
              IF x.e < y.e THEN x.e ELSE y.e)

\* the double nearest to the quotient d (q and r) times 2^e
FRoundQuotient(d, e) == FRoundInexact(d.q, d.r # <<>>, e)

\* the double nearest to (a / q) * 2^e, for 0 < q <= Limb
NearestTo(a, q, e) ==
  InOrder(<<a, FRoundQuotient(BigDivSmall(a, q), e)>>)

\* x / n for an integer 0 < n <= Limb
FDivInt(x, n) ==
  IF x.m = <<>> THEN FZero
  ELSE NearestTo(BigShl(x.m, 20), n, x.e - 20)

\* x / y for y > 0
FDiv(x, y) ==
  IF x.m = <<>> THEN FZero
  ELSE InOrder(<<y, FRoundQuotient(BigDivModFrom(BigShl(x.m, 3),
                                                 BigShl(y.m, 3), 4),
                                   x.e - y.e - 56)>>)

\* -1, 0, 1 as x < y, x = y, x > y
FCmp(x, y) ==
  IF x.m = <<>> \/ y.m = <<>>
  THEN (IF x.m = y.m THEN 0 ELSE IF x.m = <<>> THEN -1 ELSE 1)
  ELSE IF x.e # y.e THEN (IF x.e < y.e THEN -1 ELSE 1)
  ELSE BigCmp(x.m, y.m)

\* The double of the decimal p / q, for 0 <= p < 2^31 and 0 < q <= Limb: a
\* float literal (1.2 is FLit(12, 10)), and float("3.60") as FLit(360, 100).
FLit(p, q) == NearestTo(BigShl(BigOfInt(p), 60), q, -60)

\* float(n) of an integer 0 <= n < 2^31
FInt(n) == FLit(n, 1)

\* the integer nearest to a / 2^s, ties to even
RoundToInt(a, s) ==
  IF s <= 0 THEN BigToInt(BigShl(a, 0 - s))
  ELSE BigToInt(BigAdd(BigShr(a, s),
                       IF RoundsUp(a, FALSE, s) THEN <<1>> ELSE <<>>))

\* The integer nearest to x * k, ties to even: the digits that ':.1f'
\* (k = 10) and ':.0f' (k = 1) print of the double x.
FFormat(x, k) == RoundToInt(BigMulSmall(x.m, k), 0 - x.e)

\* res + a[first] + a[first + step] + ..., len terms added in that order
RECURSIVE FSumFrom(_, _, _, _, _)
FSumFrom(a, first, step, len, res) ==
  IF len = 0 THEN res
  ELSE FAdd(FSumFrom(a, first, step, len - 1, res),
            a[first + step * (len - 1)])

\* numpy's pairwise summation of a[lo .. lo + n - 1], which Series.mean()
\* reduces a float64 column with: a plain loop below 8 elements, 8 running
\* sums up to 128 elements, halves above.
RECURSIVE PairSum(_, _, _)
RECURSIVE pairwise_sum(_, _, _)
\* ((r[0] + r[1]) + (r[2] + r[3])) + ((r[4] + r[5]) + (r[6] + r[7])) for
\* lo = 0 and n = 8: the n running sums from r[lo], added by halves
PairSum(r, lo, n) ==
  IF n = 1 THEN r[lo]
  ELSE FAdd(PairSum(r, lo, n \div 2), PairSum(r, lo + n \div 2, n \div 2))

pairwise_sum(a, lo, n) ==
  IF n < 8 THEN FSumFrom(a, lo, 1, n, FZero)
  ELSE IF n <= 128
  THEN FSumFrom(a, lo + 8 * (n \div 8), 1, n % 8,
                PairSum([j \in 0..7 |->
                           FSumFrom(a, lo + j + 8, 8, (n \div 8) - 1,
                                    a[lo + j])], 0, 8))
  ELSE LET n2 == (n \div 2) - ((n \div 2) % 8)
       IN FAdd(pairwise_sum(a, lo, n2), pairwise_sum(a, lo + n2, n - n2))

(***************************************************************************)
(* The floats of the program.  A float is held as the real number it       *)
(* stands for, the fraction num / den of `per`-ths (den = 0 is NaN), and   *)
(* as the computation that produced it: the column values `terms` whose    *)
(* mean it is and the literal factors and divisors `ops` applied to that   *)
(* mean, in order.  DoubleOf evaluates that computation in binary64.       *)
(***************************************************************************)
\* float("v / 100"): a value read from the CSV, or a literal such as 0.20
Exact(v) ==
  [num |-> v, den |-> 1, per |-> 100, terms |-> <<v>>, ops |-> <<>>]

IsNaN(x) == x.den = 0

\* x * (p / q) for the float literal p / q
Times(x, p, q) ==
  [num |-> x.num * p, den |-> x.den * q, per |-> x.per, terms |-> x.terms,
   ops |-> Append(x.ops, <<"*", p, q>>)]

\* x / (p / q) for the float literal p / q
Over(x, p, q) ==
  [num |-> x.num * q, den |-> x.den * p, per |-> x.per, terms |-> x.terms,
   ops |-> Append(x.ops, <<"/", p, q>>)]

\* The binary64 value of a float that is not NaN after the first k of its
\* factors and divisors: the_sum / count of its terms, then each operation
\* from left to right.
RECURSIVE FApply(_, _)
FApply(x, k) ==
  IF k = 0
  THEN LET a == [i \in 1..Len(x.terms) |-> FLit(x.terms[i], x.per)]
       IN FDivInt(pairwise_sum(a, 1, Len(a)), Len(a))
  ELSE IF x.ops[k][1] = "*"
  THEN FMul(FApply(x, k - 1), FLit(x.ops[k][2], x.ops[k][3]))
  ELSE FDiv(FApply(x, k - 1), FLit(x.ops[k][2], x.ops[k][3]))

DoubleOf(x) == FApply(x, Len(x.ops))

\* -1, 0, 1 as float(v / 100) is below, equal to or above the float x (not
\* NaN).  Each binary64 operation is off by at most 2^-53 of its result and
\* the values here are non-negative, so the two doubles are ordered as the
\* two reals whenever these differ, which a difference of 1 in the 32-bit
\* cross product shows; a real 0 is the double 0.  Only when the reals are
\* equal is the order that of the rounded values.
Compare(v, x) ==
  IF v * x.den > x.num THEN 1
  ELSE IF v * x.den < x.num THEN -1
  ELSE IF x.num = 0 THEN 0
  ELSE FCmp(FLit(v, 100), DoubleOf(x))

\* v > x, v < x, v <= x for a column value v and a float x; false on NaN.
Gt(v, x) == ~IsNaN(x) /\ Compare(v, x) > 0

Lt(v, x) == ~IsNaN(x) /\ Compare(v, x) < 0

Le(v, x) == ~IsNaN(x) /\ Compare(v, x) <= 0

\* x > 0: a sum of non-negative doubles is 0 only if each is.
GtZero(x) == ~IsNaN(x) /\ x.num > 0

\* f"{v / avg:.1f}" (factor 1, places 1) and f"{v / avg * 100:.0f}" (factor
\* 100, places 0), as the integer made of the digits printed; a float
\* division by zero yields inf (or nan for 0/0), it does not raise.  The
\* digits are those of the real quotient unless it lies halfway between two
\* printed values; the double quotient then decides.
\* Fault variant of FormatRatio: numerator and denominator exchanged.
FormatRatio_inverted(v, avg, factor, places) ==
  IF IsNaN(avg) THEN [kind |-> "nan"]
  ELSE IF v = 0 THEN [kind |-> IF avg.num = 0 THEN "nan" ELSE "inf"]
  ELSE LET n == avg.num * factor * (IF places = 1 THEN 10 ELSE 1)
           d == v * avg.den
       IN [kind |-> "ratio",
           value |-> IF 2 * (n % d) < d THEN n \div d ELSE n \div d + 1]

\* v / avg, and v / avg * factor
Scaled(quotient, factor) ==
  IF factor = 1 THEN quotient ELSE FMul(quotient, FInt(factor))

FormatRatio(v, avg, factor, places) ==
  IF IsNaN(avg) THEN [kind |-> "nan"]
  ELSE IF avg.num = 0 THEN [kind |-> IF v = 0 THEN "nan" ELSE "inf"]
  ELSE LET k == IF places = 1 THEN 10 ELSE 1
           n == v * avg.den * factor * k
           d == avg.num
       IN [kind |-> "ratio",
           value |-> IF 2 * (n % d) < d THEN n \div d
                     ELSE IF 2 * (n % d) > d THEN n \div d + 1
                     ELSE FFormat(Scaled(FDiv(FLit(v, 100), DoubleOf(avg)),
                                         factor), k)]

RECURSIVE SumOf(_, _)
SumOf(rows, col) ==
  IF rows = <<>> THEN 0 ELSE rows[1][col] + SumOf(Tail(rows), col)

\* Series.mean(): the_sum / count, NaN (0/0) on an empty series.  The
\* conversions column holds whole numbers, the others hundredths.
mean(rows, col) ==
  [num |-> SumOf(rows, col), den |-> Len(rows),
   per |-> IF col = "conversions" THEN 1 ELSE 100,
   terms |-> [i \in 1..Len(rows) |-> rows[i][col]], ops |-> <<>>]

\* Fault variant of HasConversions: every record kept (>= in place of >).
HasConversions_all(row) == row.conversions >= 0

HasConversions(row) == row.conversions > 0

calculate_averages(rows) ==
  LET df_with_conversions == SelectSeq(rows, HasConversions) IN
  [avg_ctr         |-> mean(rows, "ctr"),
   avg_cpc         |-> mean(rows, "cpc"),
   avg_bounce      |-> mean(rows, "bounce"),
   avg_depth       |-> mean(rows, "depth"),
   avg_conversions |-> mean(rows, "conversions"),
   avg_spend       |-> mean(rows, "spend"),
   avg_cpa         |-> IF Len(df_with_conversions) > 0
                       THEN mean(df_with_conversions, "cpa")
                       ELSE Exact(0)]

(***************************************************************************)
(* apply_blocking_criteria: the thresholds and conditions of the rule      *)
(* chain, as written in the source, then the chain itself.  coef is        *)
(* yandex_coef in tenths; 1.5 and 1.0 are doubles.                         *)
(***************************************************************************)
\* threshold_cpa = averages['avg_cpa'] * 2.5 * yandex_coef
threshold_cpa(avgs, coef) == Times(Times(avgs.avg_cpa, 25, 10), coef, 10)

\* min_spend = 50 * yandex_coef
min_spend(coef) == 500 * coef

\* low_ctr_threshold = 0.20 / yandex_coef
low_ctr_threshold(coef) == Over(Exact(20), coef, 10)

\* bounce_threshold = averages['avg_bounce'] * 1.2 * yandex_coef
bounce_threshold(avgs, coef) ==
  Times(Times(avgs.avg_bounce, 12, 10), coef, 10)

\* 10 * yandex_coef, the lower end of the 2.2б band
band_low(coef) == 100 * coef

\* row['CTR_%'] >= 50 and row['Показов'] >= 10
\* Fault variant: both comparisons strict.
Rule22a_strict(row) == row.ctr > 5000 /\ row.impressions > 10

Rule22a(row) == row.ctr >= 5000 /\ row.impressions >= 10

\* row['CTR_%'] >= (10 * yandex_coef) and row['CTR_%'] < 50 and row['Показов'] >= 10
Band22b(row, coef) ==
  row.ctr >= band_low(coef) /\ row.ctr < 5000 /\ row.impressions >= 10

\* row['Конверсии'] > 0 and row['Цена_цели_руб'] > (averages['avg_cpa'] * 2.5 * yandex_coef)
\* Fault variant: >= in place of >.
Rule22b21_ge(row, avgs, coef) ==
  /\ row.conversions > 0
  /\ ~IsNaN(avgs.avg_cpa)
  /\ Compare(row.cpa, Times(Times(avgs.avg_cpa, 25, 10), coef, 10)) >= 0

Rule22b21(row, avgs, coef) ==
  /\ row.conversions > 0
  /\ Gt(row.cpa, Times(Times(avgs.avg_cpa, 25, 10), coef, 10))

\* row['Цена_цели_руб'] > threshold_cpa and averages['avg_cpa'] > 0
Rule21A(row, avgs, coef) ==
  Gt(row.cpa, threshold_cpa(avgs, coef)) /\ GtZero(avgs.avg_cpa)

\* row['Расход_руб'] >= min_spend and row['Кликов'] >= 10
Rule21B(row, coef) == row.spend >= min_spend(coef) /\ row.clicks >= 10

\* row['CTR_%'] < low_ctr_threshold and row['Показов'] >= 1000
Rule23(row, coef) ==
  Lt(row.ctr, low_ctr_threshold(coef)) /\ row.impressions >= 1000

\* row['Ср_цена_клика_руб'] < (averages['avg_cpc'] * 0.3) and row['CTR_%'] > 15
\* Fault variant: <= in place of <.
Rule28_le(row, avgs) == Le(row.cpc, Times(avgs.avg_cpc, 3, 10)) /\ row.ctr > 1500

Rule28(row, avgs) == Lt(row.cpc, Times(avgs.avg_cpc, 3, 10)) /\ row.ctr > 1500

\* (row['Отказы_%'] > bounce_threshold or row['Глубина_стр'] <= 1.0)
\*   and row['Конверсии'] == 0 and row['Кликов'] >= 20
\* Fault variant: the clicks >= 20 conjunct dropped.
Rule24_noclicks(row, avgs, coef) ==
  /\ Gt(row.bounce, bounce_threshold(avgs, coef)) \/ row.depth <= 100
  /\ row.conversions = 0

Rule24(row, avgs, coef) ==
  /\ Gt(row.bounce, bounce_threshold(avgs, coef)) \/ row.depth <= 100
  /\ row.conversions = 0
  /\ row.clicks >= 20

\* (row['CTR_%'] > 15 and row['Конверсии'] == 0) or
\* (row['Ср_цена_клика_руб'] < 0.5 and row['CTR_%'] > 20) or
\* (row['Расход_руб'] > 30 and row['Конверсии'] == 0)
\* Fault variant: CTR > 20 in the first disjunct.
Rule25_ctr20(row) ==
  \/ row.ctr > 2000 /\ row.conversions = 0
  \/ row.cpc < 50 /\ row.ctr > 2000
  \/ row.spend > 3000 /\ row.conversions = 0

Rule25(row) ==
  \/ row.ctr > 1500 /\ row.conversions = 0
  \/ row.cpc < 50 /\ row.ctr > 2000
  \/ row.spend > 3000 /\ row.conversions = 0

Rule25B(row) ==
  \/ row.ctr > 1500 /\ row.conversions = 0
  \/ row.cpc < 50 /\ row.ctr > 2000
  \/ row.spend > 3000 /\ row.conversions = 0

\* row['Конверсии'] == 0 and row['Расход_руб'] > 30
Rule26(row) == row.conversions = 0 /\ row.spend > 3000

\* blocking_reason = None ... deviation = "": the decision before any rule.
NoDecision ==
  [criteria_number |-> "none", priority |-> "none",
   recommendation |-> "KEEP", deviation |-> [kind |-> "text"], divs |-> {}]

Decide(st, number, prio, recommend, dev, newdivs) ==
  [criteria_number |-> number, priority |-> prio, recommendation |-> recommend,
   deviation |-> dev, divs |-> st.divs \cup newdivs]

Undecided(st) == st.criteria_number = "none"

IsZero(avg) == ~IsNaN(avg) /\ avg.num = 0

\* if 2.2а ... elif 2.2б band: (conversions == 0 | expensive conversions)
Step22(st, row, avgs, coef) ==
  IF Rule22a(row)
  THEN Decide(st, "2.2a", "Critical", "BLOCK NOW", [kind |-> "text"], {})
  ELSE IF Band22b(row, coef)
  THEN IF row.conversions = 0
       THEN Decide(st, "2.2b", "High", "BLOCK", [kind |-> "text"], {})
       ELSE IF Rule22b21(row, avgs, coef)
       THEN Decide(st, "2.2b + 2.1", "High", "BLOCK", [kind |-> "text"], {})
       ELSE st
  ELSE st

Step21A(st, row, avgs, coef) ==
  IF Undecided(st) /\ row.conversions > 0 /\ Rule21A(row, avgs, coef)
  THEN Decide(st, "2.1A", "Critical", "BLOCK",
              FormatRatio(row.cpa, avgs.avg_cpa, 1, 1),
              {[rule |-> "2.1A", zero |-> IsZero(avgs.avg_cpa)]})
  ELSE st

Step21B(st, row, coef) ==
  IF Undecided(st) /\ row.conversions = 0 /\ Rule21B(row, coef)
  THEN Decide(st, "2.1B", "Critical", "BLOCK", [kind |-> "text"], {})
  ELSE st

\* low_ctr_threshold = 0.20 / yandex_coef is computed whenever the row is
\* still undecided, whether or not the rule then matches.
\* Fault variant of Step23: the 'blocking_reason is None' guard dropped.
Step23_noguard(st, row, coef) ==
  IF Rule23(row, coef)
  THEN Decide(st, "2.3", "High", "BLOCK", [kind |-> "text"],
              {[rule |-> "2.3", zero |-> coef = 0]})
  ELSE st

Step23(st, row, coef) ==
  IF Undecided(st)
  THEN IF Rule23(row, coef)
       THEN Decide(st, "2.3", "High", "BLOCK", [kind |-> "text"],
                   {[rule |-> "2.3", zero |-> coef = 0]})
       ELSE [st EXCEPT !.divs = @ \cup {[rule |-> "2.3", zero |-> coef = 0]}]
  ELSE st

Step28(st, row, avgs) ==
  IF Undecided(st) /\ Rule28(row, avgs)
  THEN Decide(st, "2.8", "High", "BLOCK",
              FormatRatio(row.cpc, avgs.avg_cpc, 100, 0),
              {[rule |-> "2.8", zero |-> IsZero(avgs.avg_cpc)]})
  ELSE st

Step24(st, row, avgs, coef) ==
  IF Undecided(st) /\ Rule24(row, avgs, coef)
  THEN Decide(st, "2.4", "Medium", "BLOCK", [kind |-> "text"], {})
  ELSE st

Step25(st, row, platform_type) ==
  IF platform_type = "MobileApp" /\ Undecided(st) /\ Rule25(row)
  THEN Decide(st, "2.5", "Supplementary", "BLOCK", [kind |-> "text"], {})
  ELSE st

Step25B(st, row, platform_type) ==
  IF platform_type = "DSP" /\ Undecided(st) /\ Rule25B(row)
  THEN Decide(st, "2.5B", "Supplementary", "BLOCK", [kind |-> "text"], {})
  ELSE st

Step26(st, row, platform_type) ==
  IF platform_type = "ComSite" /\ Undecided(st) /\ Rule26(row)
  THEN Decide(st, "2.6", "Supplementary", "BLOCK", [kind |-> "text"], {})
  ELSE st

\* One iteration of the loop over df.iterrows(), up to the append, for a row
\* whose identify_platform_type is platform_type: the decision after each
\* block, the blocks taken in the order of the code; the last is the row's.
EvaluateRow(row, avgs, platform_type) ==
  LET coef == yandex_coef(platform_type)
      s1 == Step22(NoDecision, row, avgs, coef)
      s2 == Step21A(s1, row, avgs, coef)
      s3 == Step21B(s2, row, coef)
      s4 == Step23(s3, row, coef)
      s5 == Step28(s4, row, avgs)
      s6 == Step24(s5, row, avgs, coef)
      s7 == Step25(s6, row, platform_type)
      s8 == Step25B(s7, row, platform_type)
  IN InOrder(<<s1, s2, s3, s4, s5, s6, s7, s8,
               Step26(s8, row, platform_type)>>)

\* results.append({...}); idx is the row's position in df, kept so that a
\* verdict can be traced to its row when two rows share an identifier.
Verdict(idx, row, platform_type, st) ==
  [idx |-> idx,
   platform |-> row.platform,
   type |-> platform_type,
   criteria_number |-> st.criteria_number,
   priority |-> st.priority,
   recommendation |-> st.recommendation,
   deviation |-> st.deviation,
   conversions |-> row.conversions,
   cpa |-> IF row.cpa > 0 THEN row.cpa ELSE 0,
   spend |-> row.spend]

\* if criteria_number: results.append(...); st is the row's decision
Appended(acc, idx, row, platform_type, st) ==
  [results |-> IF Undecided(st) THEN acc.results
               ELSE Append(acc.results, Verdict(idx, row, platform_type, st)),
   divs |-> acc.divs \cup st.divs]

\* the body of the loop for the row at position idx
IterateRow(acc, idx, row, avgs, platform_type) ==
  InOrder(<<platform_type,
            Appended(acc, idx, row, platform_type,
                     EvaluateRow(row, avgs, platform_type))>>)

RECURSIVE BlockingLoop(_, _, _, _)
BlockingLoop(rows, avgs, idx, acc) ==
  IF idx > Len(rows) THEN acc
  ELSE BlockingLoop(rows, avgs, idx + 1,
                    IterateRow(acc, idx, rows[idx], avgs,
                               identify_platform_type(rows[idx].platform)))

apply_blocking_criteria(rows, avgs) ==
  BlockingLoop(rows, avgs, 1, [results |-> <<>>, divs |-> {}])

(***************************************************************************)
(* segment_platforms                                                       *)
(***************************************************************************)
\* Fault variant of IsEffective: the cost-per-action conjunct left out.
IsEffective_nocpa(row, avgs) ==
  /\ row.conversions > 0
  /\ 50 <= row.ctr /\ row.ctr <= 200
  /\ Le(row.bounce, avgs.avg_bounce)

IsEffective(row, avgs) ==
  /\ row.conversions > 0
  /\ Le(row.cpa, avgs.avg_cpa)
  /\ 50 <= row.ctr /\ row.ctr <= 200
  /\ Le(row.bounce, avgs.avg_bounce)

IsIneffective(row, avgs) ==
  \/ row.ctr >= 5000
  \/ row.ctr >= 1000 /\ row.conversions = 0
  \/ row.conversions > 0 /\ Gt(row.cpa, Times(avgs.avg_cpa, 25, 10))
  \/ row.conversions = 0 /\ row.spend >= 5000 /\ row.clicks >= 10
  \/ row.ctr < 20 /\ row.impressions >= 1000

\* if -> effective.append, elif -> ineffective.append, else -> medium.append
\* Fault variant of SegmentRow: 'if' in place of 'elif'.
SegmentRow_if(seg, row, avgs) ==
  LET a == IF IsEffective(row, avgs)
           THEN [seg EXCEPT !.effective = Append(@, row.platform)] ELSE seg
  IN IF IsIneffective(row, avgs)
     THEN [a EXCEPT !.ineffective = Append(@, row.platform)]
     ELSE [a EXCEPT !.medium = Append(@, row.platform)]

SegmentRow(seg, row, avgs) ==
  IF IsEffective(row, avgs)
  THEN [seg EXCEPT !.effective = Append(@, row.platform)]
  ELSE IF IsIneffective(row, avgs)
  THEN [seg EXCEPT !.ineffective = Append(@, row.platform)]
  ELSE [seg EXCEPT !.medium = Append(@, row.platform)]

RECURSIVE SegmentLoop(_, _, _, _)
SegmentLoop(rows, avgs, idx, seg) ==
  IF idx > Len(rows) THEN seg
  ELSE SegmentLoop(rows, avgs, idx + 1, SegmentRow(seg, rows[idx], avgs))

NoSegments == [effective |-> <<>>, medium |-> <<>>, ineffective |-> <<>>]

(***************************************************************************)
(* Inputs.  Identifiers, one per platform type.                            *)
(***************************************************************************)
id_yandex == Str(<<"Y","a","n","d","e","x",".","r","u">>)

id_dsp == Str(<<"d","s","p","-","x">>)

id_mobile == Str(<<"c","o","m",".","e","x","a","m","p","l","e",".","a","p","p">>)

id_com == Str(<<"s","i","t","e",".","c","o","m">>)

id_site == Str(<<"s","i","t","e",".","r","u">>)

Identifiers == {id_yandex, id_dsp, id_mobile, id_com, id_site}

\* Rows of the rule-engine specification: every combination of values on
\* both sides of each threshold the rules and the segmentation test.
\* cpa is 0 when there are no conversions, as the loader's '-' -> 0 gives.
ConversionCases ==
  { [conversions |-> 0, cpa |-> 0], [conversions |-> 3, cpa |-> 0],
    [conversions |-> 3, cpa |-> 30000] }

GridRows ==
  { [platform |-> id, impressions |-> im, clicks |-> cl, ctr |-> ct,
     spend |-> sp, cpc |-> cp, bounce |-> bo, depth |-> de,
     cpa |-> cc.cpa, conversions |-> cc.conversions] :
      id \in Identifiers, im \in {5, 10, 1000}, cl \in {0, 25},
      ct \in {0, 15, 100, 1200, 1800, 2500, 6000},
      sp \in {0, 4000, 6000, 8000}, cp \in {0, 1000}, bo \in {0, 9000},
      de \in {100, 200}, cc \in ConversionCases }

\* Rows whose cost-per-action, bounce rate or average CPC is, as a decimal,
\* exactly the threshold a baseline of TieBaselines gives (3.60 against
\* 1.44 x 2.5, 7.20 against 4.00 x 1.2 x 1.5, 3.09 against 10.30 x 0.3), or
\* whose ratio to it lies halfway between two printed values (2.85 / 1.00,
\* 0.35 / 10.00 x 100): the cases the rounding of the doubles decides.
TieConversionCases ==
  { [conversions |-> 0, cpa |-> 0] } \cup
  { [conversions |-> 3, cpa |-> pa] : pa \in {45, 255, 270, 285, 360} }

TieRows ==
  { [platform |-> id, impressions |-> im, clicks |-> 25, ctr |-> ct,
     spend |-> 0, cpc |-> cp, bounce |-> bo, depth |-> 200,
     cpa |-> cc.cpa, conversions |-> cc.conversions] :
      id \in {id_yandex, id_site}, im \in {5, 1000}, ct \in {100, 1800},
      cp \in {35, 105, 309, 543}, bo \in {360, 720},
      cc \in TieConversionCases }

RecordSpace == GridRows \cup TieRows

Baseline(avg_cpc, avg_bounce, avg_cpa) ==
  [avg_ctr |-> Exact(100), avg_cpc |-> Exact(avg_cpc),
   avg_bounce |-> Exact(avg_bounce), avg_depth |-> Exact(200),
   avg_conversions |-> Exact(1), avg_spend |-> Exact(1000),
   avg_cpa |-> Exact(avg_cpa)]

GridBaselines ==
  { Baseline(pc_, bo, pa) :
      pc_ \in {0, 1000}, bo \in {0, 7000}, pa \in {0, 10000} }

TieBaselines ==
  { Baseline(1030, 300, 144), Baseline(1000, 400, 72),
    Baseline(1810, 600, 100), Baseline(1000, 600, 18) }

BaselineSpace == GridBaselines \cup TieBaselines

\* Batches of the pipeline specification: a first row drawn from FocusRows
\* followed by up to MaxBatch - 1 rows drawn from PeerRows, which move the
\* baselines (a cheap converting row, an expensive converting row, a row
\* without conversions that still carries a cost-per-action, a Yandex row).
\* The rows after the first come in the order of PeerRows, a row possibly
\* several times.
MaxBatch == 3

FocusRows ==
  { [platform |-> id, impressions |-> im, clicks |-> cl, ctr |-> ct,
     spend |-> sp, cpc |-> cp, bounce |-> bo, depth |-> 200,
     cpa |-> cc.cpa, conversions |-> cc.conversions] :
      id \in Identifiers, im \in {5, 1000}, cl \in {0, 25},
      ct \in {0, 100, 1800, 6000},
      sp \in {0, 6000}, cp \in {0, 1000}, bo \in {0, 9000},
      cc \in ConversionCases }

PeerRows ==
  << [platform |-> id_site, impressions |-> 1000, clicks |-> 10, ctr |-> 100,
     spend |-> 1000, cpc |-> 1000, bounce |-> 0, depth |-> 200,
     cpa |-> 0, conversions |-> 3],
    [platform |-> id_site, impressions |-> 1000, clicks |-> 10, ctr |-> 100,
     spend |-> 9000, cpc |-> 50, bounce |-> 5000, depth |-> 150,
     cpa |-> 30000, conversions |-> 1],
    [platform |-> id_com, impressions |-> 5, clicks |-> 0, ctr |-> 0,
     spend |-> 0, cpc |-> 0, bounce |-> 0, depth |-> 0,
     cpa |-> 30000, conversions |-> 0],
    [platform |-> id_yandex, impressions |-> 1000, clicks |-> 120, ctr |-> 1200,
     spend |-> 6000, cpc |-> 50, bounce |-> 9000, depth |-> 100,
     cpa |-> 0, conversions |-> 0] >>

PeerChoices ==
  UNION { { f \in [1..n -> 1..Len(PeerRows)] :
              \A k \in 1..(n - 1) : f[k] <= f[k + 1] } :
          n \in 0..(MaxBatch - 1) }

\* Batches of three converting rows whose mean, as a real, is the value of
\* the second row, 0.70, and as a double lies below it
\* ((0.01 + 0.70 + 1.39) / 3 is 0.6999999999999998): the mean of the
\* cost-per-action in the first batch, of the bounce rate in the second.
MeanRow(cpa, bounce) ==
  [platform |-> id_site, impressions |-> 1000, clicks |-> 10, ctr |-> 100,
   spend |-> 1000, cpc |-> 1000, bounce |-> bounce, depth |-> 200,
   cpa |-> cpa, conversions |-> 1]

MeanBatches ==
  { <<MeanRow(1, 0), MeanRow(70, 0), MeanRow(139, 0)>>,
    <<MeanRow(0, 1), MeanRow(0, 70), MeanRow(0, 139)>> }

Batches ==
  {<<>>} \cup
  { <<row>> \o [k \in 1..Len(f) |-> PeerRows[f[k]]] :
      row \in FocusRows, f \in PeerChoices }
  \cup MeanBatches

Unset == [unset |-> TRUE]

(***************************************************************************)
(* main(): the pipeline, one action per step.                              *)
(***************************************************************************)
Init ==
  /\ df = <<>>
  /\ averages = Unset
  /\ blocking_df = <<>>
  /\ divisions = {}
  /\ segments = Unset
  /\ pc = "load"
  /\ error = "none"

\* df = load_and_preprocess_data(file_path)
Load ==
  /\ pc = "load"
  /\ \E rows \in Batches : df' = rows
  /\ pc' = "averages"
  /\ UNCHANGED <<averages, blocking_df, divisions, segments, error>>

\* averages = calculate_averages(df)
CalculateAverages ==
  /\ pc = "averages"
  /\ averages' = calculate_averages(df)
  /\ pc' = "blocking"
  /\ UNCHANGED <<df, blocking_df, divisions, segments, error>>

\* blocking_df = apply_blocking_criteria(df, averages)
ApplyBlockingCriteria ==
  /\ pc = "blocking"
  /\ \E r \in {apply_blocking_criteria(df, averages)} :
       /\ blocking_df' = r.results
       /\ divisions' = r.divs
  /\ pc' = "segment"
  /\ UNCHANGED <<df, averages, segments, error>>

\* segments = segment_platforms(df, averages); the percentages printed
\* before the return divide by len(df), two Python ints.
SegmentPlatforms ==
  /\ pc = "segment"
  /\ IF Len(df) = 0
     THEN /\ error' = "ZeroDivisionError"
          /\ pc' = "failed"
          /\ UNCHANGED segments
     ELSE /\ segments' = SegmentLoop(df, averages, 1, NoSegments)
          /\ pc' = "report"
          /\ UNCHANGED error
  /\ UNCHANGED <<df, averages, blocking_df, divisions>>

Next == Load \/ CalculateAverages \/ ApplyBlockingCriteria \/ SegmentPlatforms

Spec == Init /\ [][Next]_vars

(***************************************************************************)
(* The rule engine and the segmentation as functions of (df, averages):    *)
(* one row and any baseline, not only one computed from that row.          *)
(***************************************************************************)
InitEngine ==
  /\ \E row \in RecordSpace : df = <<row>>
  /\ averages \in BaselineSpace
  /\ blocking_df = <<>>
  /\ divisions = {}
  /\ segments = Unset
  /\ pc = "blocking"
  /\ error = "none"

NextEngine == ApplyBlockingCriteria \/ SegmentPlatforms

SpecEngine == InitEngine /\ [][NextEngine]_vars

(***************************************************************************)
(* Properties.                                                             *)
(***************************************************************************)
\* apply_blocking_criteria has returned.
Evaluated == pc \in {"segment", "report", "failed"}

\* segment_platforms has returned.
Segmented == pc = "report"

VerdictsOf(idx) == { k \in 1..Len(blocking_df) : blocking_df[k].idx = idx }

\* The precedence table of the specification (section 4.3), written from its
\* text: coefficient 1.5 for a Yandex placement and 1.0 otherwise, thresholds
\* in the units of the model.
TableCoef(type) == IF type = "Yandex" THEN 15 ELSE 10

TableOrder ==
  <<"2.2a", "2.2b", "2.2b + 2.1", "2.1A", "2.1B", "2.3", "2.8", "2.4",
    "2.5", "2.5B", "2.6">>

\* The table compares a column with a product of a baseline and decimal
\* factors.  Where the two sides are different numbers the comparison is
\* that of the numbers; where they are the same number (cost-per-action 3.60
\* against 1.44 x 2.5) it is that of the doubles the program holds.
TableExpensive(row, avgs, type) ==
  LET value == 100 * row.cpa * avgs.avg_cpa.den
      limit == 25 * TableCoef(type) * avgs.avg_cpa.num
  IN /\ avgs.avg_cpa.den > 0
     /\ \/ value > limit
        \/ /\ value = limit
           /\ Gt(row.cpa,
                 Times(Times(avgs.avg_cpa, 25, 10), TableCoef(type), 10))

TableCheap(row, avgs) ==
  LET value == 10 * row.cpc * avgs.avg_cpc.den
      limit == 3 * avgs.avg_cpc.num
  IN /\ avgs.avg_cpc.den > 0
     /\ \/ value < limit
        \/ value = limit /\ Lt(row.cpc, Times(avgs.avg_cpc, 3, 10))

TableBounce(row, avgs, type) ==
  LET value == 100 * row.bounce * avgs.avg_bounce.den
      limit == 12 * TableCoef(type) * avgs.avg_bounce.num
  IN /\ avgs.avg_bounce.den > 0
     /\ \/ value > limit
        \/ /\ value = limit
           /\ Gt(row.bounce,
                 Times(Times(avgs.avg_bounce, 12, 10), TableCoef(type), 10))

TableBand(row, type) ==
  100 * TableCoef(type) <= row.ctr /\ row.ctr < 5000 /\ row.impressions >= 10

TableCompound(row) ==
  \/ row.ctr > 1500 /\ row.conversions = 0
  \/ row.cpc < 50 /\ row.ctr > 2000
  \/ row.spend > 3000 /\ row.conversions = 0

\* The condition of rule id for a row of platform type `type`.
TableCondOf(id, row, avgs, type) ==
  CASE id = "2.2a" -> row.ctr >= 5000 /\ row.impressions >= 10
    [] id = "2.2b" -> TableBand(row, type) /\ row.conversions = 0
    [] id = "2.2b + 2.1" ->
         /\ TableBand(row, type)
         /\ row.conversions > 0
         /\ TableExpensive(row, avgs, type)
    [] id = "2.1A" ->
         /\ row.conversions > 0
         /\ avgs.avg_cpa.den > 0 /\ avgs.avg_cpa.num > 0
         /\ TableExpensive(row, avgs, type)
    [] id = "2.1B" ->
         /\ row.conversions = 0
         /\ row.spend >= 500 * TableCoef(type)
         /\ row.clicks >= 10
    [] id = "2.3" -> row.ctr * TableCoef(type) < 200 /\ row.impressions >= 1000
    [] id = "2.8" -> TableCheap(row, avgs) /\ row.ctr > 1500
    [] id = "2.4" ->
         /\ TableBounce(row, avgs, type) \/ row.depth <= 100
         /\ row.conversions = 0
         /\ row.clicks >= 20
    [] id = "2.5" -> type = "MobileApp" /\ TableCompound(row)
    [] id = "2.5B" -> type = "DSP" /\ TableCompound(row)
    [] id = "2.6" -> type = "ComSite" /\ row.conversions = 0 /\ row.spend > 3000

TableCond(id, row, avgs) ==
  TableCondOf(id, row, avgs, identify_platform_type(row.platform))

RECURSIVE FirstFrom(_, _, _, _)
FirstFrom(k, row, avgs, type) ==
  IF k > Len(TableOrder) THEN "none"
  ELSE IF TableCondOf(TableOrder[k], row, avgs, type) THEN TableOrder[k]
  ELSE FirstFrom(k + 1, row, avgs, type)

FirstMatch(row, avgs) ==
  FirstFrom(1, row, avgs, identify_platform_type(row.platform))

\* C1: every record gets 0 or 1 verdicts; a record for which no condition of
\* the precedence table holds gets none, and any other record gets exactly
\* one, whose criterion is the first rule of the table whose condition holds.
C1_FirstMatchWins ==
  Evaluated =>
    \A idx \in 1..Len(df) :
      LET first == FirstMatch(df[idx], averages) IN
      /\ Cardinality(VerdictsOf(idx)) <= 1
      /\ first = "none" => VerdictsOf(idx) = {}
      /\ first # "none" =>
           /\ Cardinality(VerdictsOf(idx)) = 1
           /\ \A k \in VerdictsOf(idx) : blocking_df[k].criteria_number = first

\* A record for which the conditions of 2.1B, 2.4 and 2.6 all hold was given
\* the verdict 2.1B.
C1_Witness ==
  /\ Evaluated
  /\ \E k \in 1..Len(blocking_df) :
       /\ blocking_df[k].criteria_number = "2.1B"
       /\ TableCond("2.4", df[blocking_df[k].idx], averages)
       /\ TableCond("2.6", df[blocking_df[k].idx], averages)

\* C2: a record with CTR >= 50 and impressions >= 10 receives the verdict
\* 2.2a with priority Critical, whatever its other fields, its platform type
\* and the baselines.
C2_ExtremeCtr ==
  Evaluated =>
    \A idx \in 1..Len(df) :
      (df[idx].ctr >= 5000 /\ df[idx].impressions >= 10) =>
        \E k \in VerdictsOf(idx) :
          /\ blocking_df[k].criteria_number = "2.2a"
          /\ blocking_df[k].priority = "Critical"

\* A converting Yandex placement with CTR 60 % got 2.2a.
C2_Witness ==
  /\ Evaluated
  /\ \E k \in 1..Len(blocking_df) :
       /\ blocking_df[k].criteria_number = "2.2a"
       /\ blocking_df[k].type = "Yandex"
       /\ blocking_df[k].conversions > 0
       /\ df[blocking_df[k].idx].ctr >= 5000

\* The coefficient-scaled rules and their conditions under a given
\* coefficient, for comparing a Yandex placement with a generic one that has
\* the same metrics.
CoefYandex == yandex_coef("Yandex")

CoefGeneric == yandex_coef("Site")

ScaledRules == {"2.1A", "2.1B", "2.2b", "2.3", "2.4"}

ScaledCond(rule, row, avgs, coef) ==
  CASE rule = "2.1A" -> row.conversions > 0 /\ Rule21A(row, avgs, coef)
    [] rule = "2.1B" -> row.conversions = 0 /\ Rule21B(row, coef)
    [] rule = "2.2b" -> Band22b(row, coef) /\ row.conversions = 0
    [] rule = "2.3" -> Rule23(row, coef)
    [] rule = "2.4" -> Rule24(row, avgs, coef)

FracLt(a, b) == a.den > 0 /\ b.den > 0 /\ a.num * b.den < b.num * a.den

\* The Yandex threshold of the rule is strictly harder to breach.
StrictlyMoreDemanding(rule, avgs) ==
  CASE rule = "2.1A" ->
         FracLt(threshold_cpa(avgs, CoefGeneric), threshold_cpa(avgs, CoefYandex))
    [] rule = "2.1B" -> min_spend(CoefGeneric) < min_spend(CoefYandex)
    [] rule = "2.2b" -> band_low(CoefGeneric) < band_low(CoefYandex)
    [] rule = "2.3" ->
         FracLt(low_ctr_threshold(CoefYandex), low_ctr_threshold(CoefGeneric))
    [] rule = "2.4" ->
         FracLt(bounce_threshold(avgs, CoefGeneric),
                bounce_threshold(avgs, CoefYandex))

\* C3 as stated: for every coefficient-scaled rule, the condition holding
\* under the Yandex coefficient implies it holds under the generic one, and
\* the Yandex threshold is strictly more demanding.
C3_Original ==
  Evaluated =>
    \A idx \in 1..Len(df) : \A rule \in ScaledRules :
      /\ ScaledCond(rule, df[idx], averages, CoefYandex)
           => ScaledCond(rule, df[idx], averages, CoefGeneric)
      /\ StrictlyMoreDemanding(rule, averages)

\* C3 amended: the implication holds for all five rules; the Yandex
\* threshold is strictly more demanding for 2.1B, 2.2b and 2.3 always, and
\* for 2.1A and for the bounce threshold of 2.4 exactly when the baseline it
\* scales (avg_cpa, avg_bounce) is positive: both thresholds are 0 otherwise.
C3_YandexLeniency ==
  Evaluated =>
    \A idx \in 1..Len(df) : \A rule \in ScaledRules :
      /\ ScaledCond(rule, df[idx], averages, CoefYandex)
           => ScaledCond(rule, df[idx], averages, CoefGeneric)
      /\ rule \in {"2.1B", "2.2b", "2.3"} => StrictlyMoreDemanding(rule, averages)
      /\ rule = "2.1A" =>
           (StrictlyMoreDemanding(rule, averages) <=> GtZero(averages.avg_cpa))
      /\ rule = "2.4" =>
           (StrictlyMoreDemanding(rule, averages) <=> GtZero(averages.avg_bounce))

\* A Yandex placement was blocked under 2.1A; the generic condition holds
\* for its metrics too.
C3_Witness ==
  /\ Evaluated
  /\ \E k \in 1..Len(blocking_df) :
       /\ blocking_df[k].type = "Yandex"
       /\ blocking_df[k].criteria_number = "2.1A"
       /\ ScaledCond("2.1A", df[blocking_df[k].idx], averages, CoefGeneric)

\* C4 as stated: on an empty batch calculate_averages fails with
\* EmptyBatchError, returns no baselines, and no later stage runs.
C4_EmptyBatchFails ==
  (Len(df) = 0 /\ pc \notin {"load", "averages"}) =>
    /\ error = "EmptyBatchError"
    /\ pc = "failed"
    /\ averages = Unset

\* C5: apply_blocking_criteria never divides by zero on the rows of a batch
\* and the baselines computed from it.
C5_NoDivisionByZero ==
  Evaluated => \A d \in divisions : ~d.zero

\* All three divisions were performed on one batch.
C5_Witness ==
  /\ Evaluated
  /\ {d.rule : d \in divisions} = {"2.1A", "2.3", "2.8"}

\* C6: when the computed avg_cpa is 0, no record gets 2.1A or 2.2b + 2.1.
C6_ZeroAvgCpa ==
  (Evaluated /\ IsZero(averages.avg_cpa)) =>
    \A k \in 1..Len(blocking_df) :
      blocking_df[k].criteria_number \notin {"2.1A", "2.2b + 2.1"}

\* avg_cpa is 0 over converting records, one of which sits in the 2.2b CTR
\* band, where the unguarded branch is evaluated; it got no verdict.
C6_Witness ==
  /\ Evaluated
  /\ IsZero(averages.avg_cpa)
  /\ \E idx \in 1..Len(df) :
       /\ df[idx].conversions > 0
       /\ df[idx].ctr >= 1500 /\ df[idx].ctr < 5000 /\ df[idx].impressions >= 10
       /\ VerdictsOf(idx) = {}

Occurrences(list, x) == Cardinality({ i \in 1..Len(list) : list[i] = x })

\* C7: every record is appended to exactly one of the three lists.
C7_OneTagEach ==
  Segmented =>
    /\ Len(segments.effective) + Len(segments.medium)
         + Len(segments.ineffective) = Len(df)
    /\ \A idx \in 1..Len(df) :
         Occurrences(segments.effective, df[idx].platform)
           + Occurrences(segments.medium, df[idx].platform)
           + Occurrences(segments.ineffective, df[idx].platform)
         = Cardinality({ j \in 1..Len(df) : df[j].platform = df[idx].platform })

\* A batch with a record of each tag, one of them blocked and one kept.
C7_Witness ==
  /\ Segmented
  /\ segments.effective # <<>>
  /\ segments.medium # <<>>
  /\ segments.ineffective # <<>>
  /\ blocking_df # <<>>
  /\ Len(blocking_df) < Len(df)

TypeOf(idx) == identify_platform_type(df[idx].platform)

\* The scenario of C8: a MobileApp record with CTR > 15 and no conversions.
MobileHighCtr(idx) ==
  TypeOf(idx) = "MobileApp" /\ df[idx].ctr > 1500 /\ df[idx].conversions = 0

\* C8 as stated: such a record receives the verdict 2.5, whatever its other
\* fields.
C8_Original ==
  Evaluated =>
    \A idx \in 1..Len(df) :
      MobileHighCtr(idx) =>
        \E k \in VerdictsOf(idx) : blocking_df[k].criteria_number = "2.5"

\* C8 amended: such a record always receives a verdict; with impressions >= 10
\* it is 2.2a (CTR >= 50) or 2.2b (CTR < 50), and it is 2.5 exactly when
\* impressions < 10 and none of 2.1B, 2.8 and 2.4 holds for the record.
C8_MobileHighCtr ==
  Evaluated =>
    \A idx \in 1..Len(df) :
      MobileHighCtr(idx) =>
        \E k \in VerdictsOf(idx) :
          LET c == blocking_df[k].criteria_number IN
          /\ df[idx].impressions >= 10 =>
               c = IF df[idx].ctr >= 5000 THEN "2.2a" ELSE "2.2b"
          /\ c = "2.5" <=>
               /\ df[idx].impressions < 10
               /\ ~TableCond("2.1B", df[idx], averages)
               /\ ~TableCond("2.8", df[idx], averages)
               /\ ~TableCond("2.4", df[idx], averages)

\* A mobile app with CTR 18 %, 25 clicks and no conversions got 2.5.
C8_Witness ==
  /\ Evaluated
  /\ \E k \in 1..Len(blocking_df) :
       /\ blocking_df[k].criteria_number = "2.5"
       /\ MobileHighCtr(blocking_df[k].idx)
       /\ df[blocking_df[k].idx].ctr = 1800
       /\ df[blocking_df[k].idx].clicks = 25

\* The scenario of C9: no conversions, no spend, no clicks.
ZeroRecord(idx) ==
  df[idx].conversions = 0 /\ df[idx].spend = 0 /\ df[idx].clicks = 0

InList(list, x) == \E i \in 1..Len(list) : list[i] = x

OnlyMedium(idx) ==
  /\ InList(segments.medium, df[idx].platform)
  /\ ~InList(segments.effective, df[idx].platform)
  /\ ~InList(segments.ineffective, df[idx].platform)

OnlyIneffective(idx) ==
  /\ InList(segments.ineffective, df[idx].platform)
  /\ ~InList(segments.effective, df[idx].platform)
  /\ ~InList(segments.medium, df[idx].platform)

\* C9 as stated: such a record receives no verdict and is tagged Medium,
\* whatever its impressions, CTR, average CPC, bounce, depth and type.
C9_Original ==
  \A idx \in 1..Len(df) :
    ZeroRecord(idx) =>
      /\ Evaluated => VerdictsOf(idx) = {}
      /\ Segmented => OnlyMedium(idx)

\* C9 amended: such a record receives no verdict and is tagged Medium when
\* its CTR is below 10 and it is not the case that CTR < 0.20 with
\* impressions >= 1000; with CTR 0 and impressions >= 1000 it is blocked
\* under 2.3 and tagged Ineffective.
C9_ZeroRecord ==
  \A idx \in 1..Len(df) :
    ZeroRecord(idx) =>
      /\ (df[idx].ctr < 1000 /\ ~(df[idx].ctr < 20 /\ df[idx].impressions >= 1000)) =>
           /\ Evaluated => VerdictsOf(idx) = {}
           /\ Segmented => OnlyMedium(idx)
      /\ (df[idx].ctr = 0 /\ df[idx].impressions >= 1000) =>
           /\ Evaluated =>
                \E k \in VerdictsOf(idx) : blocking_df[k].criteria_number = "2.3"
           /\ Segmented => OnlyIneffective(idx)

\* A zero record with one page of depth came out of both stages kept and
\* Medium.
C9_Witness ==
  /\ Segmented
  /\ \E idx \in 1..Len(df) :
       /\ ZeroRecord(idx)
       /\ df[idx].ctr = 0
       /\ df[idx].depth <= 100
       /\ VerdictsOf(idx) = {}
       /\ OnlyMedium(idx)

\* The scenario of C10: avg_cpa > 0, a converting record with coefficient
\* 1.0 whose cost-per-action exceeds avg_cpa x 2.5.
ExpensiveGeneric(idx) ==
  /\ GtZero(averages.avg_cpa)
  /\ df[idx].conversions > 0
  /\ TypeOf(idx) # "Yandex"
  /\ TableExpensive(df[idx], averages, TypeOf(idx))

\* deviation holds cost-per-action / avg_cpa to one decimal: v tenths is a
\* nearest tenth of the ratio.
IsRatioOf(dev, row, avgs) ==
  /\ dev.kind = "ratio"
  /\ LET exact == 10 * row.cpa * avgs.avg_cpa.den
         shown == dev.value * avgs.avg_cpa.num
     IN 2 * (exact - shown) <= avgs.avg_cpa.num
        /\ 2 * (shown - exact) <= avgs.avg_cpa.num

\* C10 as stated: such a record receives 2.1A with the ratio as deviation,
\* whatever its other fields.
C10_Original ==
  Evaluated =>
    \A idx \in 1..Len(df) :
      ExpensiveGeneric(idx) =>
        \E k \in VerdictsOf(idx) :
          /\ blocking_df[k].criteria_number = "2.1A"
          /\ IsRatioOf(blocking_df[k].deviation, df[idx], averages)

\* C10 amended: such a record always receives a verdict: 2.2a when CTR >= 50
\* and impressions >= 10, 2.2b + 2.1 when 10 <= CTR < 50 and impressions >=
\* 10, and otherwise 2.1A with the ratio cost-per-action / avg_cpa to one
\* decimal as deviation (3.0 for avg_cpa = 100, cost-per-action = 300).
C10_ExpensiveConversion ==
  Evaluated =>
    \A idx \in 1..Len(df) :
      ExpensiveGeneric(idx) =>
        \E k \in VerdictsOf(idx) :
          LET c == blocking_df[k].criteria_number
              banded == df[idx].ctr >= 1000 /\ df[idx].impressions >= 10
          IN /\ banded => c = IF df[idx].ctr >= 5000 THEN "2.2a" ELSE "2.2b + 2.1"
             /\ ~banded =>
                  /\ c = "2.1A"
                  /\ blocking_df[k].priority = "Critical"
                  /\ IsRatioOf(blocking_df[k].deviation, df[idx], averages)
                  /\ (averages.avg_cpa = Exact(10000) /\ df[idx].cpa = 30000)
                       => blocking_df[k].deviation.value = 30

\* avg_cpa = 100, conversions = 3, cost-per-action = 300: 2.1A, ratio 3.0.
C10_Witness ==
  /\ Evaluated
  /\ averages.avg_cpa = Exact(10000)
  /\ \E k \in 1..Len(blocking_df) :
       /\ blocking_df[k].criteria_number = "2.1A"
       /\ blocking_df[k].conversions = 3
       /\ blocking_df[k].cpa = 30000
       /\ blocking_df[k].type # "Yandex"
       /\ blocking_df[k].deviation = [kind |-> "ratio", value |-> 30]

(***************************************************************************)
(* identify_platform_type over a space of identifiers: every concatenation *)
(* of a head, a body and a tail, in lower and upper case, so that the      *)
(* "yandex", "dsp-", mobile-prefix, dot-count, "dzen" and ".com" tests     *)
(* meet in every combination.  Each identifier is carried by one blocked   *)
(* and one kept row through the rule engine, which classifies it.          *)
(***************************************************************************)
IdHeads ==
  { <<>>, <<"d","s","p","-">>, <<"D","S","P","-">>, <<"c","o","m",".">>,
    <<"R","u",".">>, <<"t","a","p",".">>, <<"c","o","n">>, <<"x","d","s","p","-">> }

IdBodies ==
  { <<"a">>, <<"y","a","n","d","e","x">>, <<"Y","A","N","D","E","X">>,
    <<"d","z","e","n">>, <<"a",".","b">>, <<"y","a","n","d","e">> }

IdTails ==
  { <<>>, <<".","c","o","m">>, <<".","C","O","M">>, <<".","r","u">>,
    <<".","c","o","m","x">> }

\* Identifiers with letters outside ASCII, as code points: the Cyrillic
\* capitals of "YANDEX" before ".RU"; "DSP-" before U+0130, whose lower case
\* is two code points; the Kelvin sign U+212A, whose lower case is "k",
\* before ".COM"; "COM.A." before the Greek capitals omicron and sigma, the
\* sigma being final.
UnicodeIdentifiers ==
  { <<1071, 1053, 1044, 1045, 1050, 1057>> \o Str(<<".","R","U">>),
    Str(<<"D","S","P","-">>) \o <<304>>,
    <<8490>> \o Str(<<".","C","O","M">>),
    Str(<<"C","O","M",".","A",".">>) \o <<927, 931>> }

IdentifierSpace ==
  { Str(h \o b \o t) : h \in IdHeads, b \in IdBodies, t \in IdTails }
    \cup { Str(<<"c","o","n",".","c","o","m">>),
           Str(<<"D","Z","E","N",".","R","U">>) }
    \cup UnicodeIdentifiers

ClassifierRows ==
  { [platform |-> id, impressions |-> 1000, clicks |-> 25, ctr |-> ct,
     spend |-> 0, cpc |-> 1000, bounce |-> 0, depth |-> 200,
     cpa |-> 0, conversions |-> 3] :
      id \in IdentifierSpace, ct \in {100, 6000} }

InitClassifier ==
  /\ \E row \in ClassifierRows : df = <<row>>
  /\ averages = calculate_averages(df)
  /\ blocking_df = <<>>
  /\ divisions = {}
  /\ segments = Unset
  /\ pc = "blocking"
  /\ error = "none"

SpecClassifier == InitClassifier /\ [][NextEngine]_vars

\* The five rules of section 4.1, written from the text of the specification
\* on the lower-cased identifier.
PlatformTypes == {"Yandex", "DSP", "MobileApp", "ComSite", "Site"}

HasMobilePrefix(name) ==
  \E k \in 1..Len(mobile_prefixes) : startswith(name, mobile_prefixes[k])

ClassifierRule(n, name) ==
  CASE n = 1 -> contains(name, s_yandex) \/ name = s_dzen_ru
    [] n = 2 -> startswith(name, s_dsp)
    [] n = 3 ->
         /\ HasMobilePrefix(name)
         /\ \/ count(name, s_dot) >= 2
            \/ (~contains(name, s_yandex) /\ ~contains(name, s_dzen))
    [] n = 4 -> endswith(name, s_dot_com)
    [] n = 5 -> TRUE

ClassifierOutcome == <<"Yandex", "DSP", "MobileApp", "ComSite", "Site">>

FirstRule(name) ==
  CHOOSE n \in 1..5 :
    ClassifierRule(n, name) /\ \A m \in 1..(n - 1) : ~ClassifierRule(m, name)

\* C11: identify_platform_type returns, for every identifier, exactly the
\* outcome of the first of the five rules that matches the lower-cased
\* identifier; so "yandex" wins over "dsp-" and over a mobile prefix, the
\* mobile rule wins over ".com", and a mobile prefix with exactly one "."
\* and "dzen" is not MobileApp.  The type recorded in a verdict is that one.
C11_Classifier ==
  /\ \A idx \in 1..Len(df) :
       LET name == lower(df[idx].platform)
           type == identify_platform_type(df[idx].platform)
       IN /\ type \in PlatformTypes
          /\ type = ClassifierOutcome[FirstRule(name)]
          /\ contains(name, s_yandex) => type = "Yandex"
          /\ ClassifierRule(3, name) /\ ~ClassifierRule(1, name)
               /\ ~ClassifierRule(2, name) => type = "MobileApp"
          /\ (HasMobilePrefix(name) /\ count(name, s_dot) = 1
                /\ contains(name, s_dzen)) => type # "MobileApp"
  /\ \A k \in 1..Len(blocking_df) :
       blocking_df[k].type
         = ClassifierOutcome[FirstRule(lower(blocking_df[k].platform))]

\* A blocked placement "DSP-YANDEX.COM": it starts with "dsp-", ends with
\* ".com" and contains "yandex" once lower-cased, and was typed Yandex.
C11_Witness ==
  /\ Evaluated
  /\ \E k \in 1..Len(blocking_df) :
       /\ blocking_df[k].platform
            = Str(<<"D","S","P","-","Y","A","N","D","E","X",".","C","O","M">>)
       /\ blocking_df[k].type = "Yandex"

\* A blocked placement "Ru.dzen": a mobile prefix, exactly one "." and
\* "dzen"; it was typed Site, not MobileApp.
C11_WitnessDzen ==
  /\ Evaluated
  /\ \E k \in 1..Len(blocking_df) :
       /\ blocking_df[k].platform = Str(<<"R","u",".","d","z","e","n">>)
       /\ blocking_df[k].type = "Site"

(***************************************************************************)
(* The baselines against the batch they were computed from.                *)
(***************************************************************************)
Averaged == pc \in {"blocking", "segment", "report", "failed"}

Converting == { i \in 1..Len(df) : df[i].conversions > 0 }

RECURSIVE Total(_, _)
Total(S, col) ==
  IF S = {} THEN 0
  ELSE LET i == CHOOSE j \in S : TRUE IN df[i][col] + Total(S \ {i}, col)

AllRecordBaselines ==
  [avg_ctr |-> "ctr", avg_cpc |-> "cpc", avg_bounce |-> "bounce",
   avg_depth |-> "depth", avg_conversions |-> "conversions",
   avg_spend |-> "spend"]

\* The batch with the cost-per-action of its records without conversions
\* replaced by v.
WithIdleCpa(v) ==
  [i \in 1..Len(df) |->
     IF df[i].conversions = 0 THEN [df[i] EXCEPT !.cpa = v] ELSE df[i]]

\* C12: avg_cpa is the sum of cost-per-action over the records with
\* conversions > 0 divided by their number, and 0 when there is none; it is
\* the same whatever cost-per-action the records with conversions = 0
\* carry; each of the other six baselines is the sum of its column over all
\* records divided by the number of records.
C12_AvgCpaSubset ==
  Averaged =>
    /\ Converting = {} => averages.avg_cpa = Exact(0)
    /\ Converting # {} =>
         /\ averages.avg_cpa.num = Total(Converting, "cpa")
         /\ averages.avg_cpa.den = Cardinality(Converting)
         /\ Len(averages.avg_cpa.terms) = Cardinality(Converting)
    /\ \A v \in {0, 777} :
         calculate_averages(WithIdleCpa(v)).avg_cpa = averages.avg_cpa
    /\ \A b \in DOMAIN AllRecordBaselines :
         /\ averages[b].num = Total(1..Len(df), AllRecordBaselines[b])
         /\ averages[b].den = Len(df)

\* Baselines computed from a batch that holds a record with conversions and
\* a record without conversions whose cost-per-action is not 0: avg_cpa
\* differs from the mean of cost-per-action over all records.
C12_Witness ==
  /\ Averaged
  /\ Converting # {}
  /\ \E i \in 1..Len(df) : df[i].conversions = 0 /\ df[i].cpa > 0
  /\ averages.avg_cpa.num * Len(df)
       # Total(1..Len(df), "cpa") * averages.avg_cpa.den

\* C13 as stated: every record tagged Ineffective by segment_platforms has a
\* verdict from apply_blocking_criteria on the same batch and baselines.
C13_IneffectiveBlocked ==
  Segmented =>
    \A idx \in 1..Len(df) : OnlyIneffective(idx) => VerdictsOf(idx) # {}

\* The records of the batch that carry identifier p and have no verdict.
KeptAs(p) ==
  { idx \in 1..Len(df) : df[idx].platform = p /\ VerdictsOf(idx) = {} }

\* C14: on a batch with non-negative fields and the baselines computed from
\* it, no record with a blocking verdict is tagged Effective: an identifier
\* occurs in the 'effective' list at most as often as there are records
\* without a verdict that carry it (for an identifier carried by one record:
\* it is not in the list when that record is blocked).
C14_BlockedNeverEffective ==
  Segmented =>
    \A idx \in 1..Len(df) :
      Occurrences(segments.effective, df[idx].platform)
        <= Cardinality(KeptAs(df[idx].platform))

\* A converting record inside the Effective CTR range with bounce not above
\* the baseline was blocked under 2.1A and tagged Ineffective, while another
\* record of the same batch was tagged Effective.
C14_Witness ==
  /\ Segmented
  /\ Len(segments.effective) > 0
  /\ \E k \in 1..Len(blocking_df) :
       LET row == df[blocking_df[k].idx] IN
         /\ blocking_df[k].criteria_number = "2.1A"
         /\ row.conversions > 0
         /\ 50 <= row.ctr /\ row.ctr <= 200
         /\ row.bounce * averages.avg_bounce.den <= averages.avg_bounce.num
         /\ OnlyIneffective(blocking_df[k].idx)

====
